---- MODULE Spec2Model ----
(***************************************************************************)
(* Editing Session Engine of chromaframe: the editor component of          *)
(* src/app/editor.tsx (tool mode, crop/rotate/flip transform pipeline,     *)
(* freehand annotation layer, save paths) and the session store of         *)
(* src/lib/sessions.ts.                                                    *)
(***************************************************************************)
EXTENDS Integers, Sequences, FiniteSets, TLC

(***************************************************************************)
(* Bounds of the model.                                                    *)
(***************************************************************************)
\* transforms (manipulateAsync calls) issued in one editing session
MaxTransforms == 2
\* saves issued in one editing session
MaxSaves == 1
\* save requests of a session that is only loaded, saved and opened again
MaxSaveRequests == 2
\* strokes the user may add to the canvas: drawing stops at MaxStrokes committed strokes
MaxStrokes == 1
\* points of one freehand path
MaxPathLen == 2
\* pointer positions are 1..MaxPoint
MaxPoint == 1
\* committed strokes on the canvas when the annotation layer is looked at on its own
MaxLayerStrokes == 2
\* rows of the sessions table when the store is looked at on its own
MaxRows == 2
\* calls of the store looked at statement by statement
MaxCalls == 2
\* armed share timers, those of the Apply & Share transforms in flight included
MaxShareTimers == 1
\* the crop tool reports rotations of up to MaxQuarterTurns quarter turns, either way
MaxQuarterTurns == 5

(***************************************************************************)
(* Program constants.                                                      *)
(***************************************************************************)
\* ((angle % 360) + 360) % 360
FullTurn == 360
\* useState(6): the initial brush width
DefaultBrushWidth == 6

(***************************************************************************)
(* Numbers.  The crop tool reports floating point values; the model keeps  *)
(* them in half units (h stands for h/2), enough to tell Math.round from   *)
(* the identity.                                                           *)
(***************************************************************************)
\* Math.round(h/2): the nearest integer, a tie going up
MathRound(h) == (h + 1) \div 2

\* JavaScript's a % b for b > 0: the remainder has the sign of a
JsRem(a, b) == IF a >= 0 THEN a % b ELSE 0 - ((0 - a) % b)

\* a normalisation with one remainder only, angle % 360: a negative angle stays negative
NormalizeAngleOnce(angle) == JsRem(angle, FullTurn)

\* const normAngle = ((angle % 360) + 360) % 360
NormalizeAngle(angle) == JsRem(JsRem(angle, FullTurn) + FullTurn, FullTurn)

(***************************************************************************)
(* The transform pipeline: the operation list applyCropAndSwitch builds    *)
(* from what the crop tool reports (resultCtx).  An operation is           *)
(* [op, arg]; a crop gesture is [resize, angle, flipHorizontal,            *)
(* flipVertical, crop], resize being << >> when the tool reports none.     *)
(***************************************************************************)
ResizeOp(g) ==
    IF g.resize # << >>
    THEN << [op |-> "resize", arg |-> << MathRound(g.resize[1]), MathRound(g.resize[2]) >>] >>
    ELSE << >>

RotateOp(g) ==
    LET angle == MathRound(g.angle)
        normAngle == NormalizeAngle(angle)
    IN  IF normAngle # 0 THEN << [op |-> "rotate", arg |-> << normAngle >>] >> ELSE << >>

FlipHorizontalOp(g) ==
    IF g.flipHorizontal THEN << [op |-> "flipHorizontal", arg |-> << >>] >> ELSE << >>

FlipVerticalOp(g) ==
    IF g.flipVertical THEN << [op |-> "flipVertical", arg |-> << >>] >> ELSE << >>

CropOp(g) ==
    << [op |-> "crop",
        arg |-> << MathRound(g.crop[1]), MathRound(g.crop[2]),
                   MathRound(g.crop[3]), MathRound(g.crop[4]) >>] >>

\* a pipeline that crops first
BuildActionsCropFirst(g) ==
    CropOp(g) \o ResizeOp(g) \o RotateOp(g) \o FlipHorizontalOp(g) \o FlipVerticalOp(g)

\* const actions = []; ...push(resize) ...push(rotate) ...push(flip) ...push(crop)
BuildActions(g) ==
    ResizeOp(g) \o RotateOp(g) \o FlipHorizontalOp(g) \o FlipVerticalOp(g) \o CropOp(g)


(***************************************************************************)
(* Values.                                                                 *)
(***************************************************************************)
\* image references are opaque: the picked photo, '' and what manipulateAsync returns
EmptyUri == << "", 0 >>
PhotoUri == << "photo", 0 >>
ManipulatedUri(n) == << "manipulated", n >>

\* a preview reference: undefined (omitted), null, or a file of the preview directory
Undefined == << "undefined", 0 >>
Null == << "null", 0 >>
PreviewFile(n) == << "preview", n >>

Points == 1..MaxPoint
\* two of COLORS
BrushColors == { "#aaa", "#fff" }
NoteTexts == { "", "warm tones" }
\* what the user types as a session name: a blank, a name
NameInputs == { << " " >>, << "S" >> }

\* the four tool buttons of the toolbar
ToolButtons == { "grid", "brush", "picker", "note" }
\* the five tool modes of the toolbar
ToolModes == { "none", "grid", "brush", "picker", "note" }

\* the crop gesture of the editing session: zoomed, rotated a quarter turn back, mirrored
EditorGestures ==
    { [resize |-> << 401, 601 >>, angle |-> 0 - 180, flipHorizontal |-> TRUE,
       flipVertical |-> FALSE, crop |-> << 21, 41, 200, 300 >>] }

(***************************************************************************)
(* The vector path codec (Skia's toSVGString / MakeFromSVGString as the    *)
(* editor calls them): a path is its points in order, its text a move-to   *)
(* followed by line-tos.                                                   *)
(***************************************************************************)
ToSVGString(path) ==
    [i \in 1..Len(path) |-> << IF i = 1 THEN "M" ELSE "L", path[i] >>]

\* whether a path text parses: a move-to first, line-tos after it
SvgParses(svg) ==
    \A i \in 1..Len(svg) : svg[i][1] = (IF i = 1 THEN "M" ELSE "L")

\* MakeFromSVGString: the path (here its points), null on text that does not parse
MakeFromSVGString(svg) ==
    IF SvgParses(svg)
    THEN [null |-> FALSE, path |-> [i \in 1..Len(svg) |-> svg[i][2]]]
    ELSE [null |-> TRUE, path |-> << >>]

\* strokes.map(s => ({pathSvg: s.path.toSVGString(), color: s.color, width: s.width}))
SerializeStrokes(ss) ==
    [i \in 1..Len(ss) |->
        [pathSvg |-> ToSVGString(ss[i].path), color |-> ss[i].color, width |-> ss[i].width]]

\* a hydrate loop that puts each restored stroke in front (unshift for push)
RECURSIVE RestoreStrokesReversed(_)
RestoreStrokesReversed(ser) ==
    IF ser = << >> THEN << >>
    ELSE LET p == MakeFromSVGString(Head(ser).pathSvg)
             rest == RestoreStrokesReversed(Tail(ser))
         IN  IF ~p.null
             THEN rest \o
                  << [path |-> p.path, color |-> Head(ser).color, width |-> Head(ser).width] >>
             ELSE rest

\* a hydrate loop that gives up at the first stroke whose path text does not parse
RECURSIVE RestoreStrokesUntilBad(_)
RestoreStrokesUntilBad(ser) ==
    IF ser = << >> THEN << >>
    ELSE LET p == MakeFromSVGString(Head(ser).pathSvg)
             rest == RestoreStrokesUntilBad(Tail(ser))
         IN  IF ~p.null
             THEN << [path |-> p.path, color |-> Head(ser).color, width |-> Head(ser).width] >>
                  \o rest
             ELSE << >>

\* the hydrate loop: every stroke whose path text parses, in order
RECURSIVE RestoreStrokes(_)
RestoreStrokes(ser) ==
    IF ser = << >> THEN << >>
    ELSE LET p == MakeFromSVGString(Head(ser).pathSvg)
             rest == RestoreStrokes(Tail(ser))
         IN  IF ~p.null
             THEN << [path |-> p.path, color |-> Head(ser).color, width |-> Head(ser).width] >>
                  \o rest
             ELSE rest

\* JSON.stringify of a state and JSON.parse of a stored text
JsonStringify(state) == [valid |-> TRUE, value |-> state]

\* a stored text JSON.parse throws on
NotJson == [valid |-> FALSE, value |-> [raw |-> "{"]]

\* a parsed state has the field (the key is there and its value is not undefined)
Has(st, k) == k \in DOMAIN st

\* st.k of a parsed state, for the image references
Field(st, k) == IF Has(st, k) THEN st[k] ELSE Undefined

\* a || b on image references: undefined and '' are falsy
Or(a, b) == IF a # Undefined /\ a # EmptyUri THEN a ELSE b

\* String.prototype.trim on a sequence of characters
RECURSIVE TrimStart(_)
TrimStart(s) == IF s # << >> /\ Head(s) = " " THEN TrimStart(Tail(s)) ELSE s
RECURSIVE TrimEnd(_)
TrimEnd(s) ==
    IF s # << >> /\ s[Len(s)] = " " THEN TrimEnd(SubSeq(s, 1, Len(s) - 1)) ELSE s
Trim(s) == TrimEnd(TrimStart(s))

(***************************************************************************)
(* State.                                                                  *)
(***************************************************************************)
VARIABLES
    \* EditorScreen
    phase,          \* "loading" (getSession pending), "mounted" (Editor rendered, effects
                    \* not yet run), "ready"
    sessionId,      \* params.sessionId, 0 when the editor was opened on a picked photo
    initialState,   \* << >> or << the parsed EditorState >>
    \* Editor: the document
    originalUri,    \* originalUriRef.current
    currentUri,
    noteText,
    strokes,
    activePath,     \* << >> is null
    panActive,      \* the pan gesture is between its start and its end
    brushColor,
    brushWidth,
    \* Editor: tool mode and the crop tool
    activeTool,
    applyingCrop,
    cropReady,      \* resolvedResolution is defined: CropZoom renders in the grid tool
    inflight,       \* the manipulateAsync calls not yet settled
    nextTid,        \* transforms issued so far
    \* Editor: share
    exporting,
    shareTimers,    \* armed setTimeout(exportAndShare, 50)
    alert,          \* << >> or << currentUri of the render that showed 'Apply crop?' >>
    \* Editor: save
    saveVisible,
    saveName,
    saving,
    saves,          \* the save handlers that have not returned
    nextSid,        \* saves issued so far
    \* sessions.ts and the preview directory
    store,          \* the sessions table: id -> row
    files,          \* the preview files that exist
    clock,          \* Date.now()
    rowSeq,         \* the highest id the sessions table has given out (AUTOINCREMENT)
    \* the transform pipeline on its own
    gesture,        \* what the crop tool reports
    handed,         \* the operation list built from it
    \* the stroke codec on its own
    drawn,          \* << >> or << the strokes handed to the codec >>
    restored,       \* << >> or << the strokes that came back >>
    \* the store's calls on their own, statement by statement
    calls,          \* the calls of updateSession, deleteSession and saveSession made
    \* getDb on its own
    dbPromise,      \* let dbPromise: "null", or how the promise of the first getDb settled
    dbAvailable,    \* the device can open and initialise the database file
    \* history
    snapshots,      \* whether the history keeps the document each transform was issued on
    journal,        \* whether the history keeps what each editor operation saw
    last            \* the last operation

docVars == << originalUri, currentUri, noteText, strokes, activePath, panActive >>
brushVars == << brushColor, brushWidth >>
toolVars == << activeTool, applyingCrop, cropReady, inflight, nextTid >>
shareVars == << exporting, shareTimers, alert >>
saveVars == << saveVisible, saveName, saving, saves, nextSid >>
storeVars == << store, files, clock, rowSeq >>
screenVars == << phase, sessionId, initialState >>
\* what the operations of an editing session leave alone
fixedVars == << gesture, handed, drawn, restored, calls, snapshots, journal,
              dbPromise, dbAvailable >>

vars == << screenVars, docVars, brushVars, toolVars, shareVars, saveVars, storeVars,
           fixedVars, last >>


(***************************************************************************)
(* What is rendered.                                                       *)
(***************************************************************************)
\* a canvasWrap that keeps the canvas under the note editor
CanvasMountedInButGrid(tool) == tool # "grid"

\* the canvasWrap ternary: the Skia canvas (and its gesture detector) is rendered in
\* every tool mode but note and grid; canvasRef.current is set exactly then
CanvasMountedIn(tool) == tool # "note" /\ tool # "grid"
CanvasMounted == phase = "ready" /\ CanvasMountedIn(activeTool)

\* CropZoom is rendered in the grid tool once the image resolution is known;
\* cropRef.current is set exactly then
CropMounted == phase # "loading" /\ activeTool = "grid" /\ cropReady

\* the user reaches the toolbar, the canvas and the header: the editor has run its
\* effects, and neither the 'Apply crop?' alert nor the save modal covers it
UserAtEditor == phase = "ready" /\ alert = << >> /\ ~saveVisible

\* a toolbar whose buttons do not toggle: re-selecting the active tool keeps it
ToggleTargetSticky(btn) == btn

\* a toggle that falls back to a tool mode of its own, 'off', instead of 'none'
ToggleTargetNoToggle(btn) == IF activeTool = btn THEN "off" ELSE btn

\* onPress={() => onSelectTool(activeTool === btn ? 'none' : btn)}
ToggleTarget(btn) == IF activeTool = btn THEN "none" ELSE btn

(***************************************************************************)
(* History.                                                                *)
(***************************************************************************)
NoBefore == [uri |-> EmptyUri, strokes |-> << >>, activePath |-> << >>]

NoLast ==
    [op |-> "open", tid |-> 0, sid |-> 0, tool |-> "", uri |-> EmptyUri,
     before |-> NoBefore, earlier |-> {}, baked |-> EmptyUri, issued |-> FALSE,
     seen |-> << >>, arg |-> << >>, k |-> 0]

\* any operation no property reads
Step == [NoLast EXCEPT !.op = "step"]

InflightIds == { t.id : t \in inflight }

\* the history entry of an editor operation with its argument (a button, a point) and
\* the editor's state as the operation finds it: kept only when the history keeps a
\* journal
Entry(op, arg) ==
    IF journal
    THEN [NoLast EXCEPT
            !.op = op, !.arg = arg,
            !.seen = [originalUri |-> originalUri, currentUri |-> currentUri,
                      noteText |-> noteText, strokes |-> strokes,
                      activePath |-> activePath, activeTool |-> activeTool,
                      brushColor |-> brushColor, brushWidth |-> brushWidth,
                      inflight |-> InflightIds]]
    ELSE Step

(***************************************************************************)
(* The stored sessions an editor is opened on.                             *)
(***************************************************************************)
Canvas == << "SCREEN_W", "CANVAS_H" >>

\* two strokes drawn in an earlier editing session
SavedStrokes ==
    << [path |-> << 1, 1 >>, color |-> "#fff", width |-> DefaultBrushWidth],
       [path |-> << 1 >>, color |-> "#aaa", width |-> DefaultBrushWidth] >>

\* the state an earlier editing session saved: a baked image with two strokes and a note
SavedStates ==
    { [originalUri |-> PhotoUri, currentUri |-> ManipulatedUri(0),
       noteText |-> "warm tones", strokes |-> SerializeStrokes(SavedStrokes),
       canvas |-> Canvas] }

SavedRow(state, preview) ==
    [id |-> 1, name |-> << "S" >>, created_at |-> 0, preview_uri |-> preview,
     state_json |-> JsonStringify(state)]

(***************************************************************************)
(* Init: the editor screen as router.push leaves it, on a picked photo     *)
(* (params.imageUri) or on a stored session (params.sessionId).            *)
(***************************************************************************)
InitEditorState ==
    /\ initialState = << >>
    /\ noteText = ""
    /\ strokes = << >>
    /\ activePath = << >>
    /\ panActive = FALSE
    /\ brushColor = "#aaa"
    /\ brushWidth = DefaultBrushWidth
    /\ activeTool = "grid"
    /\ applyingCrop = FALSE
    /\ cropReady = FALSE
    /\ inflight = {}
    /\ nextTid = 0
    /\ exporting = FALSE
    /\ shareTimers = 0
    /\ alert = << >>
    /\ saveVisible = FALSE
    /\ saveName = << >>
    /\ saving = FALSE
    /\ saves = {}
    /\ nextSid = 0
    /\ clock = 1
    /\ last = NoLast

InitNew ==
    /\ phase = "ready"
    /\ sessionId = 0
    /\ originalUri = PhotoUri
    /\ currentUri = PhotoUri
    /\ store = << >>
    /\ rowSeq = 0
    /\ files = {}
    /\ InitEditorState

InitStored ==
    /\ phase = "loading"
    /\ sessionId = 1
    /\ originalUri = EmptyUri
    /\ currentUri = EmptyUri
    /\ \E st \in SavedStates, pv \in { PreviewFile(0) } :
          /\ store = (1 :> SavedRow(st, pv))
          /\ rowSeq = 1
          /\ files = { pv } \ { Null }
    /\ InitEditorState

\* no crop gesture is looked at on its own
NoPipeline ==
    /\ gesture = << >>
    /\ handed = << >>

\* no stroke list is handed to the codec on its own
NoCodec ==
    /\ drawn = << >>
    /\ restored = << >>

\* no call of the store is looked at statement by statement, and none has called getDb
\* yet, on a device whose storage works
NoCalls ==
    /\ calls = << >>
    /\ dbPromise = "null"
    /\ dbAvailable = TRUE

Init ==
    /\ InitNew \/ InitStored
    /\ NoPipeline
    /\ NoCodec
    /\ NoCalls
    /\ snapshots = FALSE
    /\ journal = FALSE

\* the same, the history keeping the document each transform was issued on
InitSnapshots ==
    /\ InitNew \/ InitStored
    /\ NoPipeline
    /\ NoCodec
    /\ NoCalls
    /\ snapshots = TRUE
    /\ journal = FALSE

\* the same, the history keeping a journal of the editor's operations
InitJournal ==
    /\ InitNew \/ InitStored
    /\ NoPipeline
    /\ NoCodec
    /\ NoCalls
    /\ snapshots = FALSE
    /\ journal = TRUE


(***************************************************************************)
(* EditorScreen: loading a stored session, and the Editor's hydrate effect *)
(***************************************************************************)
\* the load effect: getSession, JSON.parse, setInitialState; the Editor is rendered
\* once loadingSession is false again.  When getSession rejects the Editor is
\* rendered without an initial state.
LoadSession ==
    /\ phase = "loading"
    /\ \/ /\ sessionId \in DOMAIN store
          /\ store[sessionId].state_json.valid
          /\ initialState' = << store[sessionId].state_json.value >>
          /\ phase' = "mounted"
          /\ last' = [NoLast EXCEPT !.op = "load"]
       \/ /\ phase' = "ready"
          /\ last' = [NoLast EXCEPT !.op = "load", !.arg = << "Load failed" >>]
          /\ UNCHANGED initialState
    /\ UNCHANGED << sessionId, docVars, brushVars, toolVars, shareVars, saveVars,
                    storeVars, fixedVars >>

\* a hydrate effect that leaves the tool mode of useState('grid')
HydratedToolGrid == "grid"

\* setActiveTool('none') of the hydrate effect
HydratedTool == "none"

\* a hydrate effect that sets the note to String(initialState.noteText)
HydratedNoteTextString(st) == IF Has(st, "noteText") THEN st.noteText ELSE "undefined"

\* initialState.noteText ?? ''
HydratedNoteText(st) == IF Has(st, "noteText") THEN st.noteText ELSE ""

\* a hydrate effect that restores no stroke
HydratedStrokesNone(st) == << >>

\* the restored strokes: none unless Array.isArray(initialState.strokes)
HydratedStrokes(st) == IF Has(st, "strokes") THEN RestoreStrokes(st.strokes) ELSE << >>

\* the hydrate effect, run once after the Editor's first render
Hydrate ==
    /\ phase = "mounted"
    /\ LET st == initialState[1]
       IN  /\ originalUri' = Or(Field(st, "originalUri"), Field(st, "currentUri"))
           /\ currentUri' = Or(Field(st, "currentUri"), Field(st, "originalUri"))
           /\ noteText' = HydratedNoteText(st)
           /\ strokes' = HydratedStrokes(st)
    /\ activePath' = << >>
    /\ activeTool' = HydratedTool
    /\ phase' = "ready"
    /\ last' = [NoLast EXCEPT !.op = "hydrate"]
    /\ UNCHANGED << sessionId, initialState, panActive, brushVars, applyingCrop, cropReady,
                    inflight, nextTid, shareVars, saveVars, storeVars, fixedVars >>

\* useImageResolution / Image.getSize deliver the size of the current image
ResolutionResolves ==
    /\ phase = "ready"
    /\ ~cropReady
    /\ currentUri # EmptyUri
    /\ cropReady' = TRUE
    /\ last' = Step
    /\ UNCHANGED << screenVars, docVars, brushVars, activeTool, applyingCrop, inflight,
                    nextTid, shareVars, saveVars, storeVars, fixedVars >>

(***************************************************************************)
(* applyCropAndSwitch, up to its await of manipulateAsync.  uri is the     *)
(* currentUri of the render whose handler calls it; sid the save that      *)
(* awaits it (0: none).  It sets activeTool, applyingCrop, inflight and    *)
(* nextTid.                                                                *)
(***************************************************************************)
\* the annotation state and image a transform is issued on
Before ==
    IF snapshots
    THEN [uri |-> currentUri, strokes |-> strokes, activePath |-> activePath]
    ELSE NoBefore

ApplyCropAndSwitch(nextTool, issuer, uri, sid) ==
    IF ~CropMounted
    THEN /\ activeTool' = nextTool
         /\ UNCHANGED << applyingCrop, inflight, nextTid >>
    ELSE /\ nextTid < MaxTransforms
         /\ applyingCrop' = TRUE
         /\ nextTid' = nextTid + 1
         /\ \E g \in EditorGestures :
               inflight' = inflight \cup
                   { [id |-> nextTid + 1, nextTool |-> nextTool, issuer |-> issuer,
                      sid |-> sid, src |-> uri, actions |-> BuildActions(g),
                      before |-> Before] }
         /\ UNCHANGED activeTool

\* an onSelectTool that clears the canvas as a transform does
StrokesAfterSelectCleared == << >>

\* onSelectTool calls no setStrokes
StrokesAfterSelect == strokes

\* onSelectTool(tool), from one of the four tool buttons
SelectTool(btn) ==
    /\ UserAtEditor
    /\ LET tool == ToggleTarget(btn)
       IN  /\ IF activeTool = "grid" /\ tool # "grid"
              THEN ApplyCropAndSwitch(tool, "tool", currentUri, 0)
              ELSE /\ activeTool' = tool
                   /\ UNCHANGED << applyingCrop, inflight, nextTid >>
           /\ last' = Entry("select", << btn >>)
    /\ panActive' = (panActive /\ CanvasMountedIn(activeTool'))
    /\ strokes' = StrokesAfterSelect
    /\ UNCHANGED << screenVars, originalUri, currentUri, noteText, activePath,
                    brushVars, cropReady, shareVars, saveVars, storeVars, fixedVars >>

\* setStrokes([]) after manipulateAsync, were it left out
StrokesAfterTransformKept == strokes

\* setStrokes([]) after manipulateAsync
StrokesAfterTransform == << >>

\* what the handlers awaiting a transform do when it settles: a save goes on to its
\* snapshot, Apply & Share arms its timer
SavesAfter(t, out) ==
    { IF s.tid = t.id THEN [s EXCEPT !.pc = "frame", !.baked = out] ELSE s : s \in saves }

\* manipulateAsync resolves: the rest of the try block, and finally
TransformSucceeds(t) ==
    /\ t \in inflight
    /\ LET out == ManipulatedUri(t.id)
       IN  /\ currentUri' = out
           /\ saves' = SavesAfter(t, out)
           /\ last' = [NoLast EXCEPT !.op = "transformOk", !.tid = t.id,
                                     !.tool = t.nextTool, !.uri = out,
                                     !.before = t.before]
    /\ strokes' = StrokesAfterTransform
    /\ activePath' = << >>
    /\ activeTool' = t.nextTool
    /\ applyingCrop' = FALSE
    /\ inflight' = inflight \ { t }
    /\ cropReady' \in BOOLEAN
    /\ panActive' = (panActive /\ CanvasMountedIn(t.nextTool))
    /\ shareTimers' = shareTimers + (IF t.issuer = "share" THEN 1 ELSE 0)
    /\ UNCHANGED << screenVars, originalUri, noteText, brushVars, nextTid, exporting, alert,
                    saveVisible, saveName, saving, nextSid, storeVars, fixedVars >>

\* manipulateAsync (or the crop tool) throws: the catch block, and finally
TransformFails(t) ==
    /\ t \in inflight
    /\ activeTool' = t.nextTool
    /\ applyingCrop' = FALSE
    /\ inflight' = inflight \ { t }
    /\ saves' = SavesAfter(t, EmptyUri)
    /\ panActive' = (panActive /\ CanvasMountedIn(t.nextTool))
    /\ shareTimers' = shareTimers + (IF t.issuer = "share" THEN 1 ELSE 0)
    /\ last' = [NoLast EXCEPT !.op = "transformFail", !.tid = t.id, !.tool = t.nextTool,
                              !.before = t.before]
    /\ UNCHANGED << screenVars, originalUri, currentUri, noteText, strokes, activePath,
                    brushVars, cropReady, nextTid, exporting, alert, saveVisible, saveName,
                    saving, nextSid, storeVars, fixedVars >>

(***************************************************************************)
(* The annotation layer: the pan gesture's handlers, undo, clear.          *)
(***************************************************************************)
\* drawing stops at this many committed strokes
StrokeCap == IF journal THEN MaxLayerStrokes ELSE MaxStrokes

\* pan.onStart: startStroke
PanStart(p) ==
    /\ UserAtEditor
    /\ CanvasMounted
    /\ ~panActive
    /\ Len(strokes) < StrokeCap
    /\ activePath' = << p >>
    /\ panActive' = TRUE
    /\ last' = Entry("startStroke", << p >>)
    /\ UNCHANGED << screenVars, originalUri, currentUri, noteText, strokes, brushVars,
                    toolVars, shareVars, saveVars, storeVars, fixedVars >>

\* the positions a move event of the drag can report: the finger has moved on
DragPoints == { Len(activePath) + p : p \in Points }

\* an appendPoint that starts a path when there is none
AppendPointStartsPath(prev, p) == Append(prev, p)

\* setActivePath((prev) => { if (!prev) return prev; prev.lineTo(x, y); return prev.copy(); })
AppendPoint(prev, p) == IF prev = << >> THEN prev ELSE Append(prev, p)

\* pan.onChange: appendPoint
PanMove(p) ==
    /\ UserAtEditor
    /\ panActive
    /\ Len(activePath) < MaxPathLen
    /\ activePath' = AppendPoint(activePath, p)
    /\ last' = Entry("appendPoint", << p >>)
    /\ UNCHANGED << screenVars, originalUri, currentUri, noteText, strokes, panActive,
                    brushVars, toolVars, shareVars, saveVars, storeVars, fixedVars >>

\* an endStroke that commits with the brush of the first render
CommittedStrokeFirstBrush(prev) ==
    [path |-> prev, color |-> "#aaa", width |-> DefaultBrushWidth]

\* {path: prev, color: brushColor, width: brushWidth}
CommittedStroke(prev) == [path |-> prev, color |-> brushColor, width |-> brushWidth]

\* pan.onEnd: endStroke
PanEnd ==
    /\ UserAtEditor
    /\ panActive
    /\ panActive' = FALSE
    /\ IF activePath # << >>
       THEN /\ strokes' = Append(strokes, CommittedStroke(activePath))
       ELSE UNCHANGED strokes
    /\ activePath' = << >>
    /\ last' = Entry("endStroke", << >>)
    /\ UNCHANGED << screenVars, originalUri, currentUri, noteText, brushVars, toolVars,
                    shareVars, saveVars, storeVars, fixedVars >>

\* an undo that removes the oldest stroke
DropFirst(prev) == IF prev = << >> THEN prev ELSE Tail(prev)

\* prev.slice(0, -1)
DropLast(prev) == SubSeq(prev, 1, Len(prev) - 1)

\* the undo button of the brush row; the history counts a run of undos and keeps
\* what the first of them saw
Undo ==
    /\ UserAtEditor
    /\ activeTool = "brush"
    /\ strokes # << >>
    /\ strokes' = DropLast(strokes)
    /\ last' = IF journal /\ last.op = "undo"
               THEN [last EXCEPT !.k = last.k + 1]
               ELSE IF journal THEN [Entry("undo", << >>) EXCEPT !.k = 1]
               ELSE Step
    /\ UNCHANGED << screenVars, originalUri, currentUri, noteText, activePath, panActive,
                    brushVars, toolVars, shareVars, saveVars, storeVars, fixedVars >>

\* a clear that forgets setActivePath(null)
ActivePathAfterClearKept == activePath

\* setActivePath(null) of clear
ActivePathAfterClear == << >>

\* the clear button of the brush row
Clear ==
    /\ UserAtEditor
    /\ activeTool = "brush"
    /\ strokes # << >>
    /\ strokes' = << >>
    /\ activePath' = ActivePathAfterClear
    /\ last' = Entry("clear", << >>)
    /\ UNCHANGED << screenVars, originalUri, currentUri, noteText, panActive, brushVars,
                    toolVars, shareVars, saveVars, storeVars, fixedVars >>

\* a colour swatch of the brush row
SetBrushColor(c) ==
    /\ UserAtEditor
    /\ activeTool = "brush"
    /\ c # brushColor
    /\ brushColor' = c
    /\ last' = Step
    /\ UNCHANGED << screenVars, docVars, brushWidth, toolVars, shareVars, saveVars,
                    storeVars, fixedVars >>

\* the notes TextInput, rendered in the note tool
EditNote(n) ==
    /\ UserAtEditor
    /\ activeTool = "note"
    /\ n # noteText
    /\ noteText' = n
    /\ last' = Step
    /\ UNCHANGED << screenVars, originalUri, currentUri, strokes, activePath, panActive,
                    brushVars, toolVars, shareVars, saveVars, storeVars, fixedVars >>


(***************************************************************************)
(* Share.                                                                  *)
(***************************************************************************)
\* the share button: onPressShare.  In the grid tool it shows the 'Apply crop?' alert;
\* otherwise exportAndShare starts (the canvas is rendered: the button is disabled in
\* the note tool)
PressShare ==
    /\ UserAtEditor
    /\ ~exporting /\ ~applyingCrop /\ activeTool # "note"
    /\ IF activeTool = "grid"
       THEN /\ alert' = << currentUri >>
            /\ UNCHANGED exporting
       ELSE /\ exporting' = TRUE
            /\ UNCHANGED alert
    /\ last' = Step
    /\ UNCHANGED << screenVars, docVars, brushVars, toolVars, shareTimers, saveVars,
                    storeVars, fixedVars >>

\* 'Cancel' of the alert
AlertCancel ==
    /\ alert # << >>
    /\ alert' = << >>
    /\ last' = Step
    /\ UNCHANGED << screenVars, docVars, brushVars, toolVars, exporting, shareTimers,
                    saveVars, storeVars, fixedVars >>

\* the tool mode Apply & Share asks applyCropAndSwitch for
ShareTool == "share"

\* 'Apply & Share' of the alert: await applyCropAndSwitch('share'), then the timer
AlertApplyShare ==
    /\ alert # << >>
    /\ shareTimers + Cardinality({ t \in inflight : t.issuer = "share" }) < MaxShareTimers
    /\ alert' = << >>
    /\ ApplyCropAndSwitch(ShareTool, "share", alert[1], 0)
    /\ shareTimers' = shareTimers + (IF CropMounted THEN 0 ELSE 1)
    /\ panActive' = (panActive /\ CanvasMountedIn(activeTool'))
    /\ last' = Step
    /\ UNCHANGED << screenVars, originalUri, currentUri, noteText, strokes, activePath,
                    brushVars, cropReady, exporting, saveVars, storeVars, fixedVars >>

\* setTimeout(() => exportAndShare(), 50) fires: 'Not ready' without a canvas
ShareTimerFires ==
    /\ shareTimers > 0
    /\ shareTimers' = shareTimers - 1
    /\ exporting' = (exporting \/ CanvasMounted)
    /\ last' = Step
    /\ UNCHANGED << screenVars, docVars, brushVars, toolVars, alert, saveVars, storeVars,
                    fixedVars >>

\* exportAndShare returns: finally setExporting(false)
ExportDone ==
    /\ exporting
    /\ exporting' = FALSE
    /\ last' = Step
    /\ UNCHANGED << screenVars, docVars, brushVars, toolVars, shareTimers, alert, saveVars,
                    storeVars, fixedVars >>

(***************************************************************************)
(* sessions.ts                                                             *)
(***************************************************************************)
\* INSERT INTO sessions: a new row under the next id; AUTOINCREMENT never gives the id
\* of a deleted row out again
NextRowId == rowSeq + 1

\* a saveSession that binds no preview_uri: every record is inserted without a preview
SaveSessionNoPreview(name, state, previewUri) ==
    /\ store' = store @@ (NextRowId :>
                    [id |-> NextRowId, name |-> name, created_at |-> clock,
                     preview_uri |-> Null,
                     state_json |-> JsonStringify(state)])
    /\ rowSeq' = NextRowId
    /\ clock' \in { clock, clock + 1 }
    /\ files' = files

\* saveSession(name, state, previewUri): sets store, files, clock and rowSeq
SaveSession(name, state, previewUri) ==
    /\ store' = store @@ (NextRowId :>
                    [id |-> NextRowId, name |-> name, created_at |-> clock,
                     preview_uri |-> IF previewUri = Undefined THEN Null ELSE previewUri,
                     state_json |-> JsonStringify(state)])
    /\ rowSeq' = NextRowId
    /\ clock' \in { clock, clock + 1 }
    /\ files' = files

\* an updateSession that passes previewUri ?? null on, as saveSession does: an omitted
\* preview clears the stored one
UpdateSessionNullish(id, state, previewUri) ==
    /\ clock' = clock
    /\ rowSeq' = rowSeq
    /\ IF id \notin DOMAIN store
       THEN UNCHANGED << store, files >>
       ELSE IF previewUri # Undefined /\ previewUri # Null
       THEN /\ store' = [store EXCEPT ![id].state_json = JsonStringify(state),
                                      ![id].preview_uri = previewUri]
            /\ LET oldUri == store[id].preview_uri
               IN  IF oldUri # Null /\ oldUri # previewUri /\ oldUri \in files
                   THEN \/ files' = files \ { oldUri }
                        \/ files' = files
                   ELSE files' = files
       ELSE /\ store' = [store EXCEPT ![id].state_json = JsonStringify(state),
                                      ![id].preview_uri = Null]
            /\ files' = files

\* an updateSession that stamps the record anew: created_at becomes the time of the update
UpdateSessionRestamped(id, state, previewUri) ==
    /\ clock' = clock
    /\ rowSeq' = rowSeq
    /\ IF id \notin DOMAIN store
       THEN UNCHANGED << store, files >>
       ELSE IF previewUri = Undefined
       THEN /\ store' = [store EXCEPT ![id].state_json = JsonStringify(state),
                                      ![id].created_at = clock]
            /\ files' = files
       ELSE IF previewUri # Null
       THEN /\ store' = [store EXCEPT ![id].state_json = JsonStringify(state),
                                      ![id].preview_uri = previewUri,
                                      ![id].created_at = clock]
            /\ LET oldUri == store[id].preview_uri
               IN  IF oldUri # Null /\ oldUri # previewUri /\ oldUri \in files
                   THEN \/ files' = files \ { oldUri }
                        \/ files' = files
                   ELSE files' = files
       ELSE /\ store' = [store EXCEPT ![id].state_json = JsonStringify(state),
                                      ![id].preview_uri = Null,
                                      ![id].created_at = clock]
            /\ files' = files

\* updateSession(id, state, previewUri): sets store, files, clock and rowSeq.  The three shapes
\* of previewUri; the old preview file is deleted best effort
UpdateSession(id, state, previewUri) ==
    /\ clock' = clock
    /\ rowSeq' = rowSeq
    /\ IF id \notin DOMAIN store
       THEN UNCHANGED << store, files >>
       ELSE IF previewUri = Undefined
       THEN /\ store' = [store EXCEPT ![id].state_json = JsonStringify(state)]
            /\ files' = files
       ELSE IF previewUri # Null
       THEN /\ store' = [store EXCEPT ![id].state_json = JsonStringify(state),
                                      ![id].preview_uri = previewUri]
            /\ LET oldUri == store[id].preview_uri
               IN  IF oldUri # Null /\ oldUri # previewUri /\ oldUri \in files
                   THEN \/ files' = files \ { oldUri }
                        \/ files' = files
                   ELSE files' = files
       ELSE /\ store' = [store EXCEPT ![id].state_json = JsonStringify(state),
                                      ![id].preview_uri = Null]
            /\ files' = files

\* getSession(id): << the row >>, << >> for null
GetSession(id) == IF id \in DOMAIN store THEN << store[id] >> ELSE << >>

\* the orders a SELECT may return the rows in
RowOrders ==
    { [k \in DOMAIN f |-> store[f[k]]] :
        f \in { g \in [1..Cardinality(DOMAIN store) -> DOMAIN store] :
                  \A a, b \in DOMAIN g : a # b => g[a] # g[b] } }

\* ORDER BY created_at ASC
OrderedByCreatedAtAsc(rows) ==
    \A k \in 1..(Len(rows) - 1) : rows[k].created_at <= rows[k + 1].created_at

\* ORDER BY created_at DESC
OrderedByCreatedAt(rows) ==
    \A k \in 1..(Len(rows) - 1) : rows[k].created_at >= rows[k + 1].created_at

\* listSessions(): what it may return; rows of the same created_at come in any order
ListSessions == { rows \in RowOrders : OrderedByCreatedAt(rows) }

\* a deleteSession that never looks for a preview file
DeleteTargetNone(id) == Null

\* row?.preview_uri of deleteSession when it is truthy, null otherwise: the file it
\* tries to delete
DeleteTarget(id) ==
    IF id \in DOMAIN store /\ store[id].preview_uri # Null
    THEN store[id].preview_uri
    ELSE Null

\* DELETE FROM sessions, without the WHERE
RowsAfterDeleteAll(id) == {}

\* DELETE FROM sessions WHERE id = ?: the ids that stay
RowsAfterDelete(id) == DOMAIN store \ { id }

\* deleteSession(id): sets store, files, clock and rowSeq.  The preview file is
\* deleted best effort
DeleteSession(id) ==
    /\ clock' = clock
    /\ rowSeq' = rowSeq
    /\ store' = [r \in RowsAfterDelete(id) |-> store[r]]
    /\ IF DeleteTarget(id) # Null /\ DeleteTarget(id) \in files
       THEN \/ files' = files \ { DeleteTarget(id) }
            \/ files' = files
       ELSE files' = files

(***************************************************************************)
(* Save: saveWithoutPrompt (the header button of a stored session) and the *)
(* Save button of the save modal (a new session).                          *)
(***************************************************************************)
\* the state a save handler closes over: the render it was called in
Captured == [uri |-> currentUri, strokes |-> strokes, note |-> noteText]

\* a save handler up to its first await: setSaving(true), and in the grid tool
\* await applyCropAndSwitch('none').  Saving stops at MaxSaves save requests, at
\* MaxSaveRequests in a session that is only loaded, saved and opened again
SaveStart(kind, target, name) ==
    /\ nextSid < (IF journal THEN MaxSaveRequests ELSE MaxSaves)
    /\ nextSid' = nextSid + 1
    /\ saving' = TRUE
    /\ IF activeTool = "grid"
       THEN ApplyCropAndSwitch("none", "save", currentUri, nextSid + 1)
       ELSE UNCHANGED << activeTool, applyingCrop, inflight, nextTid >>
    /\ saves' = saves \cup
          { [id |-> nextSid + 1, kind |-> kind, target |-> target, name |-> name,
             pc |-> IF CropMounted THEN "crop" ELSE "frame",
             tid |-> IF CropMounted THEN nextTid + 1 ELSE 0,
             cap |-> Captured, preview |-> IF kind = "update" THEN Undefined ELSE Null,
             earlier |-> InflightIds, baked |-> EmptyUri] }
    /\ last' = Step

\* the header's save button
HeaderSave ==
    /\ UserAtEditor
    /\ IF sessionId # 0
       THEN /\ SaveStart("update", sessionId, << >>)
            /\ UNCHANGED << saveVisible, saveName >>
       ELSE /\ saveVisible' = TRUE
            /\ last' = Step
            /\ UNCHANGED << activeTool, applyingCrop, inflight, nextTid, saveName, saving,
                            saves, nextSid >>
    /\ UNCHANGED << screenVars, docVars, brushVars, cropReady, shareVars, storeVars,
                    fixedVars >>

\* the name field of the save modal
DialogTypeName(n) ==
    /\ phase = "ready" /\ alert = << >> /\ saveVisible
    /\ n # saveName
    /\ saveName' = n
    /\ last' = Step
    /\ UNCHANGED << screenVars, docVars, brushVars, toolVars, shareVars, saveVisible,
                    saving, saves, nextSid, storeVars, fixedVars >>

\* Cancel of the save modal
DialogCancel ==
    /\ phase = "ready" /\ alert = << >> /\ saveVisible
    /\ saveVisible' = FALSE
    /\ last' = Step
    /\ UNCHANGED << screenVars, docVars, brushVars, toolVars, shareVars, saveName,
                    saving, saves, nextSid, storeVars, fixedVars >>

\* Save of the save modal: disabled={saving || !saveName.trim()}
DialogSave ==
    /\ phase = "ready" /\ alert = << >> /\ saveVisible
    /\ ~saving
    /\ Trim(saveName) # << >>
    /\ SaveStart("create", 0, Trim(saveName))
    /\ UNCHANGED << screenVars, docVars, brushVars, cropReady, shareVars, saveVisible,
                    saveName, storeVars, fixedVars >>

\* a save handler after its frame: the snapshot of the canvas, written as a preview file
SaveSnapshot(s) ==
    /\ s \in saves
    /\ s.pc = "frame"
    /\ \/ /\ ~CanvasMounted
          /\ saves' = (saves \ { s }) \cup { [s EXCEPT !.pc = "write"] }
          /\ last' = Step
          /\ UNCHANGED << files, saving >>
       \/ /\ CanvasMounted
          /\ saves' = (saves \ { s }) \cup { [s EXCEPT !.pc = "write"] }
          /\ last' = Step
          /\ UNCHANGED << files, saving >>
       \/ /\ CanvasMounted
          /\ saves' = (saves \ { s }) \cup
                         { [s EXCEPT !.pc = "write", !.preview = PreviewFile(s.id)] }
          /\ files' = files \cup { PreviewFile(s.id) }
          /\ last' = Step
          /\ UNCHANGED saving
       \/ /\ CanvasMounted
          /\ saves' = saves \ { s }
          /\ saving' = FALSE
          /\ last' = Step
          /\ UNCHANGED files
    /\ UNCHANGED << screenVars, docVars, brushVars, toolVars, shareVars, saveVisible,
                    saveName, nextSid, store, clock, rowSeq, fixedVars >>

\* a save handler that writes the image it saves as the original
SavedStateCurrentAsOriginal(s) ==
    [originalUri |-> s.cap.uri, currentUri |-> s.cap.uri, noteText |-> s.cap.note,
     strokes |-> SerializeStrokes(s.cap.strokes), canvas |-> Canvas]

\* the EditorState a save handler builds
SavedState(s) ==
    [originalUri |-> originalUri, currentUri |-> s.cap.uri, noteText |-> s.cap.note,
     strokes |-> SerializeStrokes(s.cap.strokes), canvas |-> Canvas]

\* a save handler's store call returns: updateSession / saveSession, then finally
SaveWrite(s) ==
    /\ s \in saves
    /\ s.pc = "write"
    /\ IF s.kind = "update"
       THEN /\ UpdateSession(s.target, SavedState(s), s.preview)
            /\ UNCHANGED << saveVisible, saveName >>
       ELSE /\ SaveSession(s.name, SavedState(s), s.preview)
            /\ saveVisible' = FALSE
            /\ saveName' = << >>
    /\ saves' = saves \ { s }
    /\ saving' = FALSE
    /\ last' = [NoLast EXCEPT !.op = "saveWrite",
                              !.sid = IF s.kind = "update" THEN s.target ELSE NextRowId,
                              !.earlier = s.earlier, !.baked = s.baked,
                              !.issued = (s.tid # 0), !.arg = << s.preview >>]
    /\ UNCHANGED << screenVars, docVars, brushVars, toolVars, shareVars, nextSid, fixedVars >>

\* a save handler's store call rejects: catch, then finally
SaveWriteFails(s) ==
    /\ s \in saves
    /\ s.pc = "write"
    /\ saves' = saves \ { s }
    /\ saving' = FALSE
    /\ last' = Step
    /\ UNCHANGED << screenVars, docVars, brushVars, toolVars, shareVars, saveVisible,
                    saveName, nextSid, storeVars, fixedVars >>

(***************************************************************************)
(* The editing session: tool selection, transforms, annotation, notes and  *)
(* share.  A save acts on the tool mode and the document only through the  *)
(* applyCropAndSwitch('none') it starts in the grid tool, which the grid   *)
(* button starts as well.                                                  *)
(***************************************************************************)
Next ==
    \/ LoadSession
    \/ Hydrate
    \/ ResolutionResolves
    \/ \E btn \in ToolButtons : SelectTool(btn)
    \/ \E t \in inflight : TransformSucceeds(t)
    \/ \E t \in inflight : TransformFails(t)
    \/ \E p \in Points : PanStart(p)
    \/ \E p \in DragPoints : PanMove(p)
    \/ PanEnd
    \/ Undo
    \/ Clear
    \/ \E n \in NoteTexts : EditNote(n)
    \/ PressShare
    \/ AlertCancel
    \/ AlertApplyShare
    \/ ShareTimerFires
    \/ ExportDone

Spec == Init /\ [][Next]_vars

SpecSnapshots == InitSnapshots /\ [][Next]_vars

(***************************************************************************)
(* The annotation layer and the toolbar on their own, with a journal of    *)
(* what each operation saw: tool selection, transforms, strokes, undo,     *)
(* clear and the brush colour.                                             *)
(***************************************************************************)
NextAnnotate ==
    \/ LoadSession
    \/ Hydrate
    \/ ResolutionResolves
    \/ \E btn \in ToolButtons : SelectTool(btn)
    \/ \E t \in inflight : TransformSucceeds(t)
    \/ \E t \in inflight : TransformFails(t)
    \/ \E p \in Points : PanStart(p)
    \/ \E p \in DragPoints : PanMove(p)
    \/ PanEnd
    \/ Undo
    \/ Clear
    \/ \E c \in BrushColors : SetBrushColor(c)

SpecAnnotate == InitJournal /\ [][NextAnnotate]_vars

(***************************************************************************)
(* The editing session with its save paths: tool selection, transforms,    *)
(* annotation, the header's save button, the save modal and the store.     *)
(***************************************************************************)
NextSave ==
    \/ LoadSession
    \/ Hydrate
    \/ ResolutionResolves
    \/ \E btn \in ToolButtons : SelectTool(btn)
    \/ \E t \in inflight : TransformSucceeds(t)
    \/ \E t \in inflight : TransformFails(t)
    \/ \E p \in Points : PanStart(p)
    \/ \E p \in DragPoints : PanMove(p)
    \/ PanEnd
    \/ Undo
    \/ Clear
    \/ HeaderSave
    \/ \E n \in NameInputs : DialogTypeName(n)
    \/ DialogCancel
    \/ DialogSave
    \/ \E s \in saves : SaveSnapshot(s)
    \/ \E s \in saves : SaveWrite(s)
    \/ \E s \in saves : SaveWriteFails(s)

SpecSave == Init /\ [][NextSave]_vars

(***************************************************************************)
(* The same with resetEditor, which the Editor defines and binds to no     *)
(* control: whatever would call it, it is one more step of the session.    *)
(***************************************************************************)
\* resetEditor: setCurrentUri(originalUriRef.current), setStrokes([]),
\* setActivePath(null), cropRef.current?.reset?.(); the image resolution is asked for
\* again when the image changes
ResetEditor ==
    /\ UserAtEditor
    /\ currentUri' = originalUri
    /\ strokes' = << >>
    /\ activePath' = << >>
    /\ cropReady' \in (IF currentUri = originalUri THEN { cropReady } ELSE BOOLEAN)
    /\ last' = Step
    /\ UNCHANGED << screenVars, originalUri, noteText, panActive, brushVars, activeTool,
                    applyingCrop, inflight, nextTid, shareVars, saveVars, storeVars,
                    fixedVars >>

NextOriginal ==
    \/ NextSave
    \/ ResetEditor

SpecOriginal == Init /\ [][NextOriginal]_vars

(***************************************************************************)
(* The transform pipeline on its own: every crop gesture the crop tool can *)
(* report, and the operation list applyCropAndSwitch builds from it.       *)
(***************************************************************************)
\* rotations in half degrees: the quarter turns, and half a degree either side of each
Gestures ==
    [resize : { << >>, << 401, 601 >> },
     angle : { q * 180 + d : q \in (0 - MaxQuarterTurns)..MaxQuarterTurns,
                              d \in { 0 - 1, 0, 1 } },
     flipHorizontal : BOOLEAN, flipVertical : BOOLEAN, crop : { << 21, 41, 200, 300 >> }]

InitPipeline ==
    /\ InitNew
    /\ gesture \in Gestures
    /\ handed = << >>
    /\ NoCodec
    /\ NoCalls
    /\ snapshots = FALSE
    /\ journal = FALSE

\* applyCropAndSwitch builds the operation list of the gesture and hands it over
HandToTransformer ==
    /\ handed = << >>
    /\ handed' = BuildActions(gesture)
    /\ UNCHANGED << screenVars, docVars, brushVars, toolVars, shareVars, saveVars,
                    storeVars, gesture, drawn, restored, calls, snapshots, journal,
                    dbPromise, dbAvailable, last >>

NextPipeline == HandToTransformer

SpecPipeline == InitPipeline /\ [][NextPipeline]_vars

(***************************************************************************)
(* Loading on its own: the editor opened on a stored session whose         *)
(* state_json is any text: not JSON, or an object with any of the fields   *)
(* of an EditorState, its strokes with path texts that parse or not.       *)
(***************************************************************************)
\* a path text MakeFromSVGString returns null on: it starts with a line-to
BadSvg == << << "L", 1 >> >>

\* serialized strokes: two that decode, one that does not
LoadStrokes ==
    { [pathSvg |-> ToSVGString(<< 1 >>), color |-> "#aaa", width |-> DefaultBrushWidth],
      [pathSvg |-> ToSVGString(<< 1, 1 >>), color |-> "#fff", width |-> DefaultBrushWidth],
      [pathSvg |-> BadSvg, color |-> "#fff", width |-> DefaultBrushWidth] }

LoadStrokeLists == UNION { [1..n -> LoadStrokes] : n \in 0..MaxLayerStrokes }

\* an object with the fields given: each of o, c, n, ss is << >> or << the value >>
StateObject(o, c, n, ss) ==
    LET keys == { "canvas" }
                \cup (IF o # << >> THEN { "originalUri" } ELSE {})
                \cup (IF c # << >> THEN { "currentUri" } ELSE {})
                \cup (IF n # << >> THEN { "noteText" } ELSE {})
                \cup (IF ss # << >> THEN { "strokes" } ELSE {})
    IN  [k \in keys |->
            CASE k = "originalUri" -> o[1]
              [] k = "currentUri" -> c[1]
              [] k = "noteText" -> n[1]
              [] k = "strokes" -> ss[1]
              [] OTHER -> Canvas]

\* the texts found in state_json
LoadBlobs ==
    { NotJson } \cup
    { JsonStringify(StateObject(o, c, n, ss)) :
        o \in { << >>, << PhotoUri >> },
        c \in { << >>, << ManipulatedUri(0) >> },
        n \in { << >>, << "warm tones" >> },
        ss \in { << >> } \cup { << l >> : l \in LoadStrokeLists } }

InitLoad ==
    /\ phase = "loading"
    /\ sessionId = 1
    /\ originalUri = EmptyUri
    /\ currentUri = EmptyUri
    /\ \E blob \in LoadBlobs :
          store = (1 :> [id |-> 1, name |-> << "S" >>, created_at |-> 0,
                         preview_uri |-> Null, state_json |-> blob])
    /\ rowSeq = 1
    /\ files = {}
    /\ InitEditorState
    /\ NoPipeline
    /\ NoCodec
    /\ NoCalls
    /\ snapshots = FALSE
    /\ journal = FALSE

NextLoad ==
    \/ LoadSession
    \/ Hydrate

SpecLoad == InitLoad /\ [][NextLoad]_vars

(***************************************************************************)
(* Properties of loading.                                                  *)
(***************************************************************************)
\* C28: loading a state_json that is not JSON, or lacks originalUri or currentUri,
\* fails and does not hydrate the editor: currentUri, originalUri, strokes, noteText
\* and the tool mode stay as they were
C28_CorruptStateRejected ==
    LET blob == store[sessionId].state_json
    IN  (\/ ~blob.valid
         \/ ~Has(blob.value, "originalUri")
         \/ ~Has(blob.value, "currentUri")) =>
            \/ phase = "loading"
            \/ /\ phase = "ready"
               /\ last.op = "load"
               /\ last.arg = << "Load failed" >>
               /\ initialState = << >>
               /\ originalUri = EmptyUri
               /\ currentUri = EmptyUri
               /\ strokes = << >>
               /\ noteText = ""
               /\ activeTool = "grid"

\* C29: when the loaded state has strokes whose path text does not decode, exactly
\* those are dropped: the restored strokes are the decodable ones in their order,
\* and currentUri and noteText are restored
C29_UndecodableStrokesDropped ==
    (/\ last.op = "hydrate"
     /\ Has(initialState[1], "strokes")
     /\ Has(initialState[1], "currentUri")
     /\ Has(initialState[1], "noteText")) =>
        LET st == initialState[1]
            good == SelectSeq(st.strokes, LAMBDA e : SvgParses(e.pathSvg))
        IN  /\ phase = "ready"
            /\ Len(strokes) = Len(good)
            /\ \A k \in DOMAIN good :
                  /\ ToSVGString(strokes[k].path) = good[k].pathSvg
                  /\ strokes[k].color = good[k].color
                  /\ strokes[k].width = good[k].width
            /\ currentUri = st.currentUri
            /\ noteText = st.noteText

\* a state whose first stroke does not decode and whose second does has been loaded
C29_Witness ==
    /\ last.op = "hydrate"
    /\ Has(initialState[1], "strokes")
    /\ Has(initialState[1], "currentUri")
    /\ Has(initialState[1], "noteText")
    /\ Len(initialState[1].strokes) = 2
    /\ initialState[1].strokes[1].pathSvg = BadSvg
    /\ Len(strokes) = 1
    /\ strokes[1].path = << 1, 1 >>

\* C30: loading a state that has originalUri and currentUri but no noteText or no
\* strokes succeeds, the note restored as '' and the strokes as the empty list
C30_OptionalFieldsDefault ==
    (/\ last.op = "hydrate"
     /\ Has(initialState[1], "originalUri")
     /\ Has(initialState[1], "currentUri")) =>
        LET st == initialState[1]
        IN  /\ phase = "ready"
            /\ originalUri = st.originalUri
            /\ currentUri = st.currentUri
            /\ ~Has(st, "noteText") => noteText = ""
            /\ ~Has(st, "strokes") => strokes = << >>

\* a state with neither noteText nor strokes has been loaded
C30_Witness ==
    /\ last.op = "hydrate"
    /\ DOMAIN initialState[1] = { "canvas", "originalUri", "currentUri" }
    /\ phase = "ready"
    /\ currentUri = ManipulatedUri(0)

(***************************************************************************)
(* The session store on its own: saveSession and updateSession called with *)
(* any name, state and preview reference, and the preview files a caller   *)
(* writes before it calls them.                                            *)
(***************************************************************************)
\* names a caller passes: empty, blank, a name
StoreNames == { << >>, << " ", " " >>, << "S" >> }

\* states a caller passes: an untouched photo, and the saved state of SavedStates
StoreStates ==
    SavedStates \cup
    { [originalUri |-> PhotoUri, currentUri |-> PhotoUri, noteText |-> "",
       strokes |-> << >>, canvas |-> Canvas] }

\* preview references a caller passes: omitted, null, a file
StorePreviews == { Undefined, Null, PreviewFile(1), PreviewFile(2) }

InitStore ==
    /\ InitNew
    /\ NoPipeline
    /\ NoCodec
    /\ NoCalls
    /\ snapshots = FALSE
    /\ journal = FALSE

\* what a store operation finds
SeenStore == [store |-> store, files |-> files, clock |-> clock]

\* ensurePreviewDir and writeAsStringAsync of a save handler: a preview file is written
WritePreview(pv) ==
    /\ pv \notin files
    /\ files' = files \cup { pv }
    /\ last' = Step
    /\ UNCHANGED << screenVars, docVars, brushVars, toolVars, shareVars, saveVars, store,
                    clock, rowSeq, fixedVars >>

\* a call of saveSession
StoreCreate(name, state, previewUri) ==
    /\ NextRowId <= MaxRows
    /\ SaveSession(name, state, previewUri)
    /\ last' = [NoLast EXCEPT !.op = "create", !.sid = NextRowId,
                              !.arg = [name |-> name, state |-> state,
                                       previewUri |-> previewUri],
                              !.seen = SeenStore]
    /\ UNCHANGED << screenVars, docVars, brushVars, toolVars, shareVars, saveVars,
                    fixedVars >>

\* a call of updateSession
StoreUpdate(id, state, previewUri) ==
    /\ UpdateSession(id, state, previewUri)
    /\ last' = [NoLast EXCEPT !.op = "update", !.sid = id,
                              !.arg = [name |-> << >>, state |-> state,
                                       previewUri |-> previewUri],
                              !.seen = SeenStore]
    /\ UNCHANGED << screenVars, docVars, brushVars, toolVars, shareVars, saveVars,
                    fixedVars >>

\* a call of deleteSession
StoreDelete(id) ==
    /\ DeleteSession(id)
    /\ last' = [NoLast EXCEPT !.op = "delete", !.sid = id,
                              !.arg = [attempted |-> DeleteTarget(id)],
                              !.seen = SeenStore]
    /\ UNCHANGED << screenVars, docVars, brushVars, toolVars, shareVars, saveVars,
                    fixedVars >>

\* a call of getSession
StoreGet(id) ==
    /\ last' = [NoLast EXCEPT !.op = "get", !.sid = id,
                              !.arg = [result |-> GetSession(id)]]
    /\ UNCHANGED << screenVars, docVars, brushVars, toolVars, shareVars, saveVars,
                    storeVars, fixedVars >>

\* a call of listSessions
StoreList ==
    /\ \E rows \in ListSessions :
          last' = [NoLast EXCEPT !.op = "list", !.arg = [result |-> rows]]
    /\ UNCHANGED << screenVars, docVars, brushVars, toolVars, shareVars, saveVars,
                    storeVars, fixedVars >>

NextStore ==
    \/ \E pv \in StorePreviews \ { Undefined, Null } : WritePreview(pv)
    \/ \E name \in StoreNames, state \in StoreStates, pv \in StorePreviews :
          StoreCreate(name, state, pv)
    \/ \E id \in 1..MaxRows, state \in StoreStates, pv \in StorePreviews :
          StoreUpdate(id, state, pv)
    \/ \E id \in 1..MaxRows : StoreDelete(id)
    \/ \E id \in 1..MaxRows : StoreGet(id)
    \/ StoreList

SpecStore == InitStore /\ [][NextStore]_vars

(***************************************************************************)
(* getDb on its own: the store's operations, each through getDb, on a      *)
(* device whose storage may be unavailable for a while.                    *)
(***************************************************************************)
\* getDb: the promise of openDatabaseAsync and execAsync(TABLE_SQL) is made by the first
\* call and kept in dbPromise, however it settles; every call returns dbPromise
GetDb ==
    IF dbPromise = "null"
    THEN (IF dbAvailable THEN "fulfilled" ELSE "rejected")
    ELSE dbPromise

\* a store operation gets its database and runs its statements: it fails when getDb
\* rejects, or when the statements find no storage
DbSucceeds == GetDb = "fulfilled" /\ dbAvailable

\* saveSession(name, state, null)
DbCreate(name, state) ==
    /\ NextRowId <= MaxRows
    /\ dbPromise' = GetDb
    /\ IF DbSucceeds THEN SaveSession(name, state, Null) ELSE UNCHANGED storeVars
    /\ last' = [NoLast EXCEPT !.op = "db",
                              !.arg = [call |-> "create", available |-> dbAvailable,
                                       ok |-> DbSucceeds]]
    /\ UNCHANGED << screenVars, docVars, brushVars, toolVars, shareVars, saveVars, gesture,
                    handed, drawn, restored, calls, snapshots, journal, dbAvailable >>

\* updateSession(id, state)
DbUpdate(id, state) ==
    /\ dbPromise' = GetDb
    /\ IF DbSucceeds THEN UpdateSession(id, state, Undefined) ELSE UNCHANGED storeVars
    /\ last' = [NoLast EXCEPT !.op = "db",
                              !.arg = [call |-> "update", available |-> dbAvailable,
                                       ok |-> DbSucceeds]]
    /\ UNCHANGED << screenVars, docVars, brushVars, toolVars, shareVars, saveVars, gesture,
                    handed, drawn, restored, calls, snapshots, journal, dbAvailable >>

\* deleteSession(id)
DbDelete(id) ==
    /\ dbPromise' = GetDb
    /\ IF DbSucceeds THEN DeleteSession(id) ELSE UNCHANGED storeVars
    /\ last' = [NoLast EXCEPT !.op = "db",
                              !.arg = [call |-> "delete", available |-> dbAvailable,
                                       ok |-> DbSucceeds]]
    /\ UNCHANGED << screenVars, docVars, brushVars, toolVars, shareVars, saveVars, gesture,
                    handed, drawn, restored, calls, snapshots, journal, dbAvailable >>

\* getSession(id) and listSessions(): they read
DbRead(call) ==
    /\ dbPromise' = GetDb
    /\ last' = [NoLast EXCEPT !.op = "db",
                              !.arg = [call |-> call, available |-> dbAvailable,
                                       ok |-> DbSucceeds]]
    /\ UNCHANGED << screenVars, docVars, brushVars, toolVars, shareVars, saveVars, storeVars,
                    gesture, handed, drawn, restored, calls, snapshots, journal,
                    dbAvailable >>

\* the storage of the device fails (no space, no permission), or works again
StorageChanges ==
    /\ dbAvailable' = ~dbAvailable
    /\ last' = Step
    /\ UNCHANGED << screenVars, docVars, brushVars, toolVars, shareVars, saveVars, storeVars,
                    gesture, handed, drawn, restored, calls, snapshots, journal,
                    dbPromise >>

NextDb ==
    \/ \E name \in StoreNames, state \in StoreStates : DbCreate(name, state)
    \/ \E id \in 1..MaxRows, state \in StoreStates : DbUpdate(id, state)
    \/ \E id \in 1..MaxRows : DbDelete(id)
    \/ \E call \in { "get", "list" } : DbRead(call)
    \/ StorageChanges

SpecDb == InitStore /\ [][NextDb]_vars

(***************************************************************************)
(* Properties of the session store.                                        *)
(***************************************************************************)
\* C19: saveSession with a name that is empty after trimming inserts no record; with
\* any other name it inserts one new record, under a fresh id and with the current
\* timestamp, and leaves the other records alone
C19_CreateValidatesName ==
    last.op = "create" =>
        IF Trim(last.arg.name) = << >>
        THEN store = last.seen.store
        ELSE /\ last.sid \notin DOMAIN last.seen.store
             /\ DOMAIN store = DOMAIN last.seen.store \cup { last.sid }
             /\ store[last.sid].name = last.arg.name
             /\ store[last.sid].created_at = last.seen.clock
             /\ \A i \in DOMAIN last.seen.store : store[i] = last.seen.store[i]

\* C20: after updateSession on an existing record the stored preview_uri is the
\* previous one when previewUri is omitted, null when it is null, the given reference
\* when it is one; state_json is the serialization of the state in all three cases
C20_UpdatePreviewThreeWay ==
    (last.op = "update" /\ last.sid \in DOMAIN last.seen.store) =>
        /\ store[last.sid].preview_uri =
              (IF last.arg.previewUri = Undefined
               THEN last.seen.store[last.sid].preview_uri
               ELSE IF last.arg.previewUri = Null THEN Null
               ELSE last.arg.previewUri)
        /\ store[last.sid].state_json = [valid |-> TRUE, value |-> last.arg.state]

\* a record with a preview has been updated without one: the preview is kept and the
\* state replaced
C20_Witness ==
    /\ last.op = "update"
    /\ last.sid \in DOMAIN last.seen.store
    /\ last.arg.previewUri = Undefined
    /\ last.seen.store[last.sid].preview_uri = PreviewFile(1)
    /\ last.seen.store[last.sid].state_json # store[last.sid].state_json

\* C23: deleteSession on an existing record removes exactly that record and tries to
\* delete its preview file when it has one; afterwards getSession of the id is null
\* and no list has the record
C23_DeleteRemovesRecord ==
    (last.op = "delete" /\ last.sid \in DOMAIN last.seen.store) =>
        LET row == last.seen.store[last.sid]
        IN  /\ DOMAIN store = DOMAIN last.seen.store \ { last.sid }
            /\ last.arg.attempted = row.preview_uri
            /\ row.preview_uri = Null => files = last.seen.files
            /\ files \in { last.seen.files, last.seen.files \ { row.preview_uri } }
            /\ GetSession(last.sid) = << >>
            /\ \A rows \in ListSessions : \A k \in DOMAIN rows : rows[k].id # last.sid

\* a record with a preview file has been deleted, file and all, next to another one
C23_Witness ==
    /\ last.op = "delete"
    /\ last.sid \in DOMAIN last.seen.store
    /\ last.arg.attempted = PreviewFile(1)
    /\ PreviewFile(1) \in last.seen.files
    /\ PreviewFile(1) \notin files
    /\ store # << >>

\* C24: deleteSession changes no other record and deletes no file but the record's
\* preview; on an id without a record it changes no record and deletes no file
C24_DeleteFrame ==
    last.op = "delete" =>
        /\ \A i \in DOMAIN last.seen.store \ { last.sid } :
              i \in DOMAIN store /\ store[i] = last.seen.store[i]
        /\ files \subseteq last.seen.files
        /\ IF last.sid \in DOMAIN last.seen.store
           THEN last.seen.files \ files \subseteq { last.seen.store[last.sid].preview_uri }
           ELSE /\ store = last.seen.store
                /\ files = last.seen.files
                /\ last.arg.attempted = Null

\* an id that has no record has been deleted, next to a record with a preview file
C24_Witness ==
    /\ last.op = "delete"
    /\ last.sid \notin DOMAIN last.seen.store
    /\ \E i \in DOMAIN store : store[i].preview_uri # Null /\ store[i].preview_uri \in files

\* C26: getSession of the id saveSession returned gives a record with the name, the
\* preview reference and a state_json that parses to the originalUri, currentUri,
\* noteText and strokes given; operations on other ids do not change what getSession
\* gives; getSession of an id without a record gives null
C26_CreateThenGet ==
    [][/\ \A new \in 1..MaxRows : (last'.op = "create" /\ last'.sid = new) =>
             /\ Len(GetSession(new)') = 1
             /\ LET row == GetSession(new)'[1]
                    given == last'.arg
                IN  /\ row.name = given.name
                    /\ row.preview_uri =
                          (IF given.previewUri = Undefined THEN Null
                           ELSE given.previewUri)
                    /\ row.state_json.valid
                    /\ row.state_json.value.originalUri = given.state.originalUri
                    /\ row.state_json.value.currentUri = given.state.currentUri
                    /\ row.state_json.value.noteText = given.state.noteText
                    /\ row.state_json.value.strokes = given.state.strokes
       /\ \A id \in DOMAIN store :
             (last'.op \notin { "update", "delete" } \/ last'.sid # id) =>
                 GetSession(id)' = GetSession(id)
       /\ last'.op = "get" =>
             /\ last'.arg.result = GetSession(last'.sid)
             /\ last'.sid \notin DOMAIN store => last'.arg.result = << >>]_vars

\* the first record, saved with a preview, is read back after a second record has
\* been saved and deleted
C26_Witness ==
    /\ last.op = "get"
    /\ last.sid = 1
    /\ rowSeq = 2
    /\ DOMAIN store = { 1 }
    /\ Len(last.arg.result) = 1
    /\ last.arg.result[1].preview_uri = PreviewFile(1)
    /\ last.arg.result[1].state_json.value.noteText = "warm tones"

\* C27: listSessions returns every stored record exactly once, the created_at of each
\* entry at least that of the next
C27_ListNewestFirst ==
    last.op = "list" =>
        LET rows == last.arg.result
        IN  /\ Len(rows) = Cardinality(DOMAIN store)
            /\ \A i \in DOMAIN store :
                  Cardinality({ k \in DOMAIN rows : rows[k] = store[i] }) = 1
            /\ \A k \in 1..(Len(rows) - 1) : rows[k].created_at >= rows[k + 1].created_at

\* two records saved at different times have been listed, the later one first
C27_Witness ==
    /\ last.op = "list"
    /\ Len(last.arg.result) = 2
    /\ last.arg.result[1].id = 2
    /\ last.arg.result[1].created_at > last.arg.result[2].created_at

(***************************************************************************)
(* The store's calls statement by statement.  updateSession with a preview *)
(* reference and deleteSession are three awaited steps each: SELECT the    *)
(* old preview_uri, UPDATE or DELETE the row, then getInfoAsync and        *)
(* deleteAsync on the old file inside try/catch.  The other calls are one  *)
(* statement.  Any other call may run between two awaits.                  *)
(***************************************************************************)
\* a preview reference that is a file: neither omitted nor null
Concrete(pv) == pv # Undefined /\ pv # Null

\* the calls that read the old preview first
ReadsOld(c) == c.op = "delete" \/ (c.op = "update" /\ Concrete(c.previewUri))

FirstPc(c) == IF ReadsOld(c) THEN "read" ELSE "write"

NewCall(op, id, state, previewUri) ==
    LET c == [op |-> op, id |-> id, state |-> state, previewUri |-> previewUri,
              pc |-> "write", old |-> Undefined, wrote |-> FALSE, writeFailed |-> FALSE,
              attempted |-> Null, swallowed |-> FALSE, outcome |-> "pending"]
    IN  [c EXCEPT !.pc = FirstPc(c)]

\* a cleanup that only looks whether there was an old preview
NeedsCleanupAnyOld(c) ==
    /\ Concrete(c.old)

\* if (oldUri && oldUri !== previewUri) of updateSession, if (preview) of deleteSession
NeedsCleanup(c) ==
    /\ Concrete(c.old)
    /\ c.op = "update" => c.old # c.previewUri

\* a cleanup outside try/catch: its failure rejects the call
CleanupFailureOutcomeThrown == "rejected"

\* catch { /* ignore file delete errors */ }: the call goes on to its end
CleanupFailureOutcome == "resolved"

\* stored sessions, each with a preview file of its own or none
InitCalls ==
    /\ InitEditorState
    /\ phase = "ready"
    /\ sessionId = 0
    /\ originalUri = PhotoUri
    /\ currentUri = PhotoUri
    /\ \E n \in 1..MaxRows :
          /\ rowSeq = n
          /\ \E pv \in [1..n -> BOOLEAN] :
                store = [i \in 1..n |->
                           [id |-> i, name |-> << "S" >>, created_at |-> 0,
                            preview_uri |-> IF pv[i] THEN PreviewFile(i) ELSE Null,
                            state_json |-> JsonStringify(CHOOSE st \in SavedStates : TRUE)]]
    /\ files = { PreviewFile(i) : i \in 1..MaxRows }
    /\ NoPipeline
    /\ NoCodec
    /\ NoCalls
    /\ snapshots = FALSE
    /\ journal = FALSE

\* a caller calls updateSession
CallUpdate(id, state, previewUri) ==
    /\ Len(calls) < MaxCalls
    /\ calls' = Append(calls, NewCall("update", id, state, previewUri))
    /\ last' = Step
    /\ UNCHANGED << screenVars, docVars, brushVars, toolVars, shareVars, saveVars,
                    storeVars, gesture, handed, drawn, restored, snapshots, journal,
                    dbPromise, dbAvailable >>

\* a caller calls deleteSession
CallDelete(id) ==
    /\ Len(calls) < MaxCalls
    /\ calls' = Append(calls, NewCall("delete", id, << >>, Undefined))
    /\ last' = Step
    /\ UNCHANGED << screenVars, docVars, brushVars, toolVars, shareVars, saveVars,
                    storeVars, gesture, handed, drawn, restored, snapshots, journal,
                    dbPromise, dbAvailable >>

\* the creates called and not yet run
PendingCreates == { i \in DOMAIN calls : calls[i].op = "create" /\ calls[i].pc # "done" }

\* a caller calls saveSession
CallCreate(state, previewUri) ==
    /\ Len(calls) < MaxCalls
    /\ rowSeq + Cardinality(PendingCreates) < MaxRows
    /\ calls' = Append(calls, NewCall("create", 0, state, previewUri))
    /\ last' = Step
    /\ UNCHANGED << screenVars, docVars, brushVars, toolVars, shareVars, saveVars,
                    storeVars, gesture, handed, drawn, restored, snapshots, journal,
                    dbPromise, dbAvailable >>

\* SELECT preview_uri FROM sessions WHERE id = ?: old?.preview_uri, row?.preview_uri
ReadOld(i) ==
    /\ calls[i].pc = "read"
    /\ LET c == calls[i]
           old == IF c.id \in DOMAIN store THEN store[c.id].preview_uri ELSE Undefined
       IN  calls' = [calls EXCEPT ![i] = [c EXCEPT !.old = old, !.pc = "write"]]
    /\ last' = Step
    /\ UNCHANGED << screenVars, docVars, brushVars, toolVars, shareVars, saveVars,
                    storeVars, gesture, handed, drawn, restored, snapshots, journal,
                    dbPromise, dbAvailable >>

\* the row after UPDATE sessions SET state_json = ? [, preview_uri = ?] WHERE id = ?
UpdatedRow(row, c) ==
    IF c.previewUri = Undefined
    THEN [row EXCEPT !.state_json = JsonStringify(c.state)]
    ELSE [row EXCEPT !.state_json = JsonStringify(c.state), !.preview_uri = c.previewUri]

\* database.runAsync resolves: the INSERT, UPDATE or DELETE statement of the call
WriteRecord(i) ==
    /\ calls[i].pc = "write"
    /\ LET c == calls[i]
           done == [c EXCEPT !.wrote = TRUE, !.pc = "done", !.outcome = "resolved"]
       IN  \/ /\ c.op = "create"
              /\ SaveSession(<< "S" >>, c.state, c.previewUri)
              /\ calls' = [calls EXCEPT ![i] = [done EXCEPT !.id = NextRowId]]
           \/ /\ c.op = "update"
              /\ store' = [r \in DOMAIN store |->
                             IF r = c.id THEN UpdatedRow(store[r], c) ELSE store[r]]
              /\ calls' = [calls EXCEPT ![i] =
                             IF ReadsOld(c) THEN [c EXCEPT !.wrote = TRUE, !.pc = "cleanup"]
                             ELSE done]
              /\ UNCHANGED << files, clock, rowSeq >>
           \/ /\ c.op = "delete"
              /\ store' = [r \in DOMAIN store \ { c.id } |-> store[r]]
              /\ calls' = [calls EXCEPT ![i] = [c EXCEPT !.wrote = TRUE, !.pc = "cleanup"]]
              /\ UNCHANGED << files, clock, rowSeq >>
    /\ last' = Step
    /\ UNCHANGED << screenVars, docVars, brushVars, toolVars, shareVars, saveVars,
                    gesture, handed, drawn, restored, snapshots, journal,
                    dbPromise, dbAvailable >>

\* database.runAsync rejects: nothing is written and the rejection reaches the caller
WriteFails(i) ==
    /\ calls[i].pc = "write"
    /\ calls' = [calls EXCEPT ![i] = [@ EXCEPT !.writeFailed = TRUE, !.pc = "done",
                                                !.outcome = "rejected"]]
    /\ last' = Step
    /\ UNCHANGED << screenVars, docVars, brushVars, toolVars, shareVars, saveVars,
                    storeVars, gesture, handed, drawn, restored, snapshots, journal,
                    dbPromise, dbAvailable >>

\* the best-effort cleanup: getInfoAsync and, when the file exists, deleteAsync
Cleanup(i) ==
    /\ calls[i].pc = "cleanup"
    /\ LET c == calls[i]
       IN  IF NeedsCleanup(c)
           THEN /\ files' = files \ { c.old }
                /\ calls' = [calls EXCEPT ![i] = [c EXCEPT !.attempted = c.old, !.pc = "done",
                                                            !.outcome = "resolved"]]
           ELSE /\ files' = files
                /\ calls' = [calls EXCEPT ![i] = [c EXCEPT !.pc = "done",
                                                            !.outcome = "resolved"]]
    /\ last' = Step
    /\ UNCHANGED << screenVars, docVars, brushVars, toolVars, shareVars, saveVars,
                    store, clock, rowSeq, gesture, handed, drawn, restored, snapshots,
                    journal, dbPromise, dbAvailable >>

\* getInfoAsync or deleteAsync throws inside the try block
CleanupFails(i) ==
    /\ calls[i].pc = "cleanup"
    /\ NeedsCleanup(calls[i])
    /\ calls' = [calls EXCEPT ![i] = [@ EXCEPT !.attempted = calls[i].old,
                                                !.swallowed = TRUE, !.pc = "done",
                                                !.outcome = CleanupFailureOutcome]]
    /\ last' = Step
    /\ UNCHANGED << screenVars, docVars, brushVars, toolVars, shareVars, saveVars,
                    storeVars, gesture, handed, drawn, restored, snapshots, journal,
                    dbPromise, dbAvailable >>

NextCalls ==
    \/ \E id \in 1..MaxRows, state \in StoreStates, pv \in StorePreviews :
          CallUpdate(id, state, pv)
    \/ \E id \in 1..MaxRows : CallDelete(id)
    \/ \E state \in StoreStates, pv \in StorePreviews : CallCreate(state, pv)
    \/ \E i \in DOMAIN calls : ReadOld(i)
    \/ \E i \in DOMAIN calls : WriteRecord(i)
    \/ \E i \in DOMAIN calls : WriteFails(i)
    \/ \E i \in DOMAIN calls : Cleanup(i)
    \/ \E i \in DOMAIN calls : CleanupFails(i)

SpecCalls == InitCalls /\ [][NextCalls]_vars

\* a call between its first statement and its end
Midway(c) == c.pc # FirstPc(c) /\ c.pc # "done"

\* every call made has returned
Quiescent == \A i \in DOMAIN calls : calls[i].pc = "done"

(***************************************************************************)
(* Properties of the store's calls.                                        *)
(***************************************************************************)
\* C21: updateSession with a preview reference writes the row first and only then
\* attempts to delete the old preview file it read, when that is a file other than the
\* new reference; it attempts nothing when the old preview is null or the same
\* reference, and the file of the new reference is never deleted by it
C21_WriteThenDeleteOld ==
    [][\A i \in DOMAIN calls :
          LET c == calls[i]
              d == calls'[i]
          IN  (c.op = "update" /\ Concrete(c.previewUri)) =>
                /\ (c.pc = "write" /\ d.pc = "cleanup") =>
                      /\ d.attempted = Null
                      /\ files' = files
                      /\ c.id \in DOMAIN store =>
                            store'[c.id].preview_uri = c.previewUri
                /\ (c.pc = "cleanup" /\ d.pc = "done") =>
                      /\ c.wrote
                      /\ IF Concrete(c.old) /\ c.old # c.previewUri
                         THEN /\ d.attempted = c.old
                              /\ files' \subseteq files
                              /\ files \ files' \subseteq { c.old }
                         ELSE /\ d.attempted = Null
                              /\ files' = files
                      /\ c.previewUri \in files => c.previewUri \in files']_vars

\* an update has replaced the preview of a record and deleted the old file
C21_Witness ==
    \E i \in DOMAIN calls :
        /\ calls[i].op = "update"
        /\ calls[i].pc = "done"
        /\ calls[i].previewUri = PreviewFile(2)
        /\ calls[i].old = PreviewFile(1)
        /\ calls[i].attempted = PreviewFile(1)
        /\ PreviewFile(1) \notin files
        /\ PreviewFile(2) \in files
        /\ calls[i].id \in DOMAIN store
        /\ store[calls[i].id].preview_uri = PreviewFile(2)

\* C22: at most one writer per record: while an update or delete of an id is between
\* its statements no other update or delete of that id takes a step, and when two
\* updates of a record with different preview references have both returned, the
\* reference that is not the record's preview has had its file deletion attempted
C22_OneWriterPerRecord ==
    [][/\ \A i, j \in DOMAIN calls :
             (/\ i # j
              /\ calls[i].op \in { "update", "delete" }
              /\ calls[j].op \in { "update", "delete" }
              /\ calls[i].id = calls[j].id
              /\ Midway(calls[i])) => calls'[j] = calls[j]
       /\ Quiescent' =>
             \A i, j \in DOMAIN calls' :
                 LET c == calls'[i]
                     d == calls'[j]
                 IN  (/\ c.op = "update" /\ d.op = "update"
                      /\ c.id = d.id /\ c.id \in DOMAIN store'
                      /\ c.outcome = "resolved" /\ d.outcome = "resolved"
                      /\ Concrete(c.previewUri) /\ Concrete(d.previewUri)
                      /\ c.previewUri # d.previewUri
                      /\ \A k \in DOMAIN calls' \ { i, j } : calls'[k].id # c.id
                      /\ store'[c.id].preview_uri = d.previewUri)
                     => d.attempted = c.previewUri]_vars

\* C25: a failure of the best-effort file cleanup is swallowed, the call resolves with
\* the row written (update) or removed (delete); a failure of the INSERT, UPDATE or
\* DELETE statement itself rejects the call, with nothing written
C25_CleanupFailureSwallowed ==
    \A i \in DOMAIN calls :
        LET c == calls[i]
        IN  /\ c.swallowed =>
                  /\ c.outcome = "resolved"
                  /\ c.wrote
                  /\ c.op = "delete" => c.id \notin DOMAIN store
            /\ c.writeFailed =>
                  /\ c.outcome = "rejected"
                  /\ ~c.wrote
                  /\ c.attempted = Null

\* the cleanup of an update has failed: the row has the new preview, the old file is
\* still there, and the update has resolved
C25_Witness ==
    \E i \in DOMAIN calls :
        /\ calls[i].op = "update"
        /\ calls[i].swallowed
        /\ calls[i].outcome = "resolved"
        /\ calls[i].old \in files
        /\ calls[i].id \in DOMAIN store
        /\ store[calls[i].id].preview_uri = calls[i].previewUri

(***************************************************************************)
(* The stroke codec on its own: every stroke list of up to MaxLayerStrokes *)
(* strokes, serialized as the save handlers do, written and read as a      *)
(* state_json, and restored as the hydrate effect does.                    *)
(***************************************************************************)
\* the paths of one to MaxPathLen points
CodecPaths == UNION { [1..n -> 1..MaxPathLen] : n \in 1..MaxPathLen }

CodecStrokes == [path : CodecPaths, color : BrushColors, width : { DefaultBrushWidth }]

CodecStrokeLists == UNION { [1..n -> CodecStrokes] : n \in 0..MaxLayerStrokes }

InitCodec ==
    /\ InitNew
    /\ NoPipeline
    /\ drawn \in { << ss >> : ss \in CodecStrokeLists }
    /\ restored = << >>
    /\ NoCalls
    /\ snapshots = FALSE
    /\ journal = FALSE

\* strokes.map(...) of a save handler, JSON.stringify, JSON.parse, the hydrate loop
SaveAndRestore ==
    /\ restored = << >>
    /\ LET state == [originalUri |-> originalUri, currentUri |-> currentUri,
                     noteText |-> noteText, strokes |-> SerializeStrokes(drawn[1]),
                     canvas |-> Canvas]
       IN  restored' = << RestoreStrokes(JsonStringify(state).value.strokes) >>
    /\ UNCHANGED << screenVars, docVars, brushVars, toolVars, shareVars, saveVars,
                    storeVars, gesture, handed, drawn, calls, snapshots, journal,
                    dbPromise, dbAvailable, last >>

NextCodec == SaveAndRestore

SpecCodec == InitCodec /\ [][NextCodec]_vars

C1_OperationOrder ==
    handed # << >> =>
        LET order == << "resize", "rotate", "flipHorizontal", "flipVertical", "crop" >>
            rank(i) == CHOOSE k \in 1..Len(order) : order[k] = handed[i].op
            ops == { handed[i].op : i \in 1..Len(handed) }
        IN  /\ ops \subseteq { order[k] : k \in 1..Len(order) }
            /\ \A i, j \in 1..Len(handed) : i < j => rank(i) < rank(j)
            /\ ("resize" \in ops) <=> (gesture.resize # << >>)
            /\ ("rotate" \in ops) <=> (MathRound(gesture.angle) % FullTurn # 0)
            /\ ("flipHorizontal" \in ops) <=> gesture.flipHorizontal
            /\ ("flipVertical" \in ops) <=> gesture.flipVertical
            /\ handed[Len(handed)].op = "crop"

\* a gesture with a resize, a rotation past a full turn the other way and both flips
\* has been handed over: all five operations
C1_Witness ==
    /\ Len(handed) = 5
    /\ gesture.angle < 0 - 2 * FullTurn

(***************************************************************************)
(* Properties of the editing session.                                      *)
(***************************************************************************)
\* C2: after a transform resolves successfully there is no committed stroke, no
\* active path, and currentUri is the reference the transformer returned, whatever
\* they were when the transform was issued
C2_SuccessDiscardsAnnotations ==
    last.op = "transformOk" =>
        /\ strokes = << >>
        /\ activePath = << >>
        /\ currentUri = last.uri

\* a transform issued on a canvas with a committed stroke has resolved successfully
C2_Witness ==
    /\ last.op = "transformOk"
    /\ last.before.strokes # << >>
    /\ last.before.uri # currentUri

\* C3: when the transformer fails, currentUri, the committed strokes and the active
\* path are what they were when applyCropAndSwitch was called, and the tool mode is
\* the requested tool
C3_FailureLeavesDocument ==
    last.op = "transformFail" =>
        /\ currentUri = last.before.uri
        /\ strokes = last.before.strokes
        /\ activePath = last.before.activePath
        /\ activeTool = last.tool

\* C4: at most one transform application is in flight at any time
C4_OneTransformInFlight == Cardinality(inflight) <= 1

\* C5: while a transform application is in flight no stroke is begun, extended or
\* committed and no undo or clear takes effect: a step that neither issues nor settles
\* a transform leaves the committed strokes and the active path alone
C5_NoAnnotationWhileInFlight ==
    [][(inflight # {} /\ inflight' = inflight) =>
            (strokes' = strokes /\ activePath' = activePath)]_vars

\* C8: a transform issued by selecting another tool in the crop tool keeps the tool
\* mode at crop until it has resolved
C8_ModeStaysCropUntilResolved ==
    \A t \in inflight : t.issuer = "tool" => activeTool = "grid"

C10_OpensInCrop ==
    last.op \in { "open", "load", "hydrate" } => activeTool = "grid"

\* C10: before any user tool selection a new session is in the crop tool, and so is a
\* stored session until its saved state is hydrated (or when none could be loaded);
\* once hydration completes the tool mode is none
C10_NewInCropHydratedInNone ==
    /\ last.op \in { "open", "load" } => activeTool = "grid"
    /\ last.op = "hydrate" => activeTool = "none"

\* a stored session has been hydrated and shows its strokes
C10_Witness ==
    /\ last.op = "hydrate"
    /\ phase = "ready"
    /\ strokes # << >>

(***************************************************************************)
(* Properties of the save paths.                                           *)
(***************************************************************************)
\* C6: a save issued in the crop tool whose bake succeeds writes the post-transform
\* document: the currentUri the transformer returned and no strokes
C6_SaveInCropWritesBakedDocument ==
    (last.op = "saveWrite" /\ last.issued /\ last.baked # EmptyUri
        /\ last.sid \in DOMAIN store) =>
        LET written == store[last.sid].state_json.value
        IN  /\ written.currentUri = last.baked
            /\ written.strokes = << >>

\* C7: a save issued while an earlier transform was in flight does not write the
\* session record before that transform has resolved
C7_SaveWaitsForEarlierTransform ==
    last.op = "saveWrite" => last.earlier \cap InflightIds = {}

(***************************************************************************)
(* Properties of the toolbar and the annotation layer.                     *)
(***************************************************************************)
\* C11: pressing the button of the active tool ends with the tool mode none, pressing
\* the button of another tool ends with that tool: at once when no transform is
\* issued, else the transform issued asks for it and the tool mode is what a
\* transform asked for when it resolves
C11_ToggleSelects ==
    /\ last.op = "select" =>
          LET btn == last.arg[1]
              want == IF last.seen.activeTool = btn THEN "none" ELSE btn
          IN  IF InflightIds = last.seen.inflight
              THEN activeTool = want
              ELSE \A t \in inflight : t.id \notin last.seen.inflight => t.nextTool = want
    /\ last.op \in { "transformOk", "transformFail" } => activeTool = last.tool

\* the brush button has been pressed in the brush tool
C11_Witness ==
    /\ last.op = "select"
    /\ last.seen.activeTool = "brush"
    /\ last.arg = << "brush" >>
    /\ activeTool = "none"

\* C12: a tool selection in a tool mode other than crop leaves the committed strokes,
\* the active path, noteText, currentUri and originalUri as they were, and the tool
\* mode becomes the one asked for
C12_NonCropSelectKeepsDocument ==
    (last.op = "select" /\ last.seen.activeTool # "grid") =>
        /\ strokes = last.seen.strokes
        /\ activePath = last.seen.activePath
        /\ noteText = last.seen.noteText
        /\ currentUri = last.seen.currentUri
        /\ originalUri = last.seen.originalUri
        /\ activeTool = (IF last.seen.activeTool = last.arg[1] THEN "none" ELSE last.arg[1])

\* the crop button has been pressed in the brush tool, a stroke committed and another
\* under way
C12_Witness ==
    /\ last.op = "select"
    /\ last.seen.activeTool = "brush"
    /\ last.seen.strokes # << >>
    /\ last.seen.activePath # << >>
    /\ activeTool = "grid"

\* C13: startStroke issued while an active path exists leaves that path as it is
C13_BeginKeepsActivePath ==
    (last.op = "startStroke" /\ last.seen.activePath # << >>) =>
        activePath = last.seen.activePath

\* C14: endStroke with an active path appends one stroke at the end of the committed
\* list, with the path's points in order and the brush colour and width of that
\* moment, and clears the active path; without one it appends nothing
C14_CommitAppendsStroke ==
    last.op = "endStroke" =>
        /\ activePath = << >>
        /\ IF last.seen.activePath # << >>
           THEN strokes = Append(last.seen.strokes,
                                 [path |-> last.seen.activePath,
                                  color |-> last.seen.brushColor,
                                  width |-> last.seen.brushWidth])
           ELSE strokes = last.seen.strokes

\* a path of two points has been committed after another stroke, in a colour chosen
\* after the first render
C14_Witness ==
    /\ last.op = "endStroke"
    /\ last.seen.strokes # << >>
    /\ Len(last.seen.activePath) = 2
    /\ last.seen.brushColor = "#fff"
    /\ Len(strokes) = 2

\* C15: appendPoint with an active path appends the point as its last point; without
\* one it creates none; either way it changes nothing else
C15_ExtendAppendsPoint ==
    last.op = "appendPoint" =>
        /\ IF last.seen.activePath # << >>
           THEN activePath = Append(last.seen.activePath, last.arg[1])
           ELSE activePath = << >>
        /\ strokes = last.seen.strokes
        /\ currentUri = last.seen.currentUri
        /\ originalUri = last.seen.originalUri
        /\ noteText = last.seen.noteText
        /\ activeTool = last.seen.activeTool

\* a move event has arrived after the active path was discarded
C15_Witness ==
    /\ last.op = "appendPoint"
    /\ last.seen.activePath = << >>
    /\ panActive

\* C16: k undos in a row on n committed strokes leave the first n - k of them in
\* order, and the active path, currentUri and the tool mode as they were
C16_UndoRemovesMostRecent ==
    last.op = "undo" =>
        /\ last.k <= Len(last.seen.strokes)
        /\ strokes = SubSeq(last.seen.strokes, 1, Len(last.seen.strokes) - last.k)
        /\ activePath = last.seen.activePath
        /\ currentUri = last.seen.currentUri
        /\ activeTool = last.seen.activeTool

\* two undos in a row on two different strokes
C16_Witness ==
    /\ last.op = "undo"
    /\ last.k = 2
    /\ Len(last.seen.strokes) = 2
    /\ last.seen.strokes[1] # last.seen.strokes[2]

\* C17: clear leaves no committed stroke and no active path, and currentUri,
\* originalUri, noteText and the tool mode as they were
C17_ClearEmptiesLayer ==
    last.op = "clear" =>
        /\ strokes = << >>
        /\ activePath = << >>
        /\ currentUri = last.seen.currentUri
        /\ originalUri = last.seen.originalUri
        /\ noteText = last.seen.noteText
        /\ activeTool = last.seen.activeTool

\* clear has been pressed with a stroke committed and another under way
C17_Witness ==
    /\ last.op = "clear"
    /\ last.seen.strokes # << >>
    /\ last.seen.activePath # << >>

(***************************************************************************)
(* A session that is loaded, saved in place and opened again, with no edit *)
(* in between: the gallery opens a stored session, the header's button     *)
(* saves it, the save modal saves a new one.                               *)
(***************************************************************************)
\* the states found in the store have every field, their strokes path texts that parse
\* or not
InitResave ==
    /\ \/ InitNew
       \/ /\ phase = "loading"
          /\ sessionId = 1
          /\ originalUri = EmptyUri
          /\ currentUri = EmptyUri
          /\ \E c \in { PhotoUri, ManipulatedUri(0) }, n \in { "", "warm tones" },
                l \in LoadStrokeLists :
                store = (1 :> SavedRow(StateObject(<< PhotoUri >>, << c >>, << n >>,
                                                   << l >>),
                                       PreviewFile(0)))
          /\ rowSeq = 1
          /\ files = { PreviewFile(0) }
          /\ InitEditorState
    /\ NoPipeline
    /\ NoCodec
    /\ NoCalls
    /\ snapshots = FALSE
    /\ journal = TRUE

\* the gallery's row of a stored session: router.push to the editor with its id, once
\* the saves of the editor left behind have returned
OpenStored(id) ==
    /\ alert = << >> /\ ~saveVisible
    /\ saves = {} /\ inflight = {}
    /\ id \in DOMAIN store
    /\ phase' = "loading"
    /\ sessionId' = id
    /\ initialState' = << >>
    /\ originalUri' = EmptyUri
    /\ currentUri' = EmptyUri
    /\ noteText' = ""
    /\ strokes' = << >>
    /\ activePath' = << >>
    /\ panActive' = FALSE
    /\ brushColor' = "#aaa"
    /\ brushWidth' = DefaultBrushWidth
    /\ activeTool' = "grid"
    /\ applyingCrop' = FALSE
    /\ cropReady' = FALSE
    /\ saveName' = << >>
    /\ saving' = FALSE
    /\ last' = [NoLast EXCEPT !.op = "open", !.sid = id]
    /\ UNCHANGED << inflight, nextTid, shareVars, saveVisible, saves, nextSid, storeVars,
                    fixedVars >>

NextResave ==
    \/ LoadSession
    \/ Hydrate
    \/ ResolutionResolves
    \/ \E t \in inflight : TransformSucceeds(t)
    \/ \E t \in inflight : TransformFails(t)
    \/ HeaderSave
    \/ \E n \in NameInputs : DialogTypeName(n)
    \/ DialogCancel
    \/ DialogSave
    \/ \E s \in saves : SaveSnapshot(s)
    \/ \E s \in saves : SaveWrite(s)
    \/ \E s \in saves : SaveWriteFails(s)
    \/ \E id \in DOMAIN store : OpenStored(id)

SpecResave == InitResave /\ [][NextResave]_vars

(***************************************************************************)
(* The save handlers and their preview snapshot.                           *)
(***************************************************************************)
\* C31: a save writes to the store only with the preview it captured: a save whose
\* snapshot was not captured or encoded (its previewUri still undefined or null)
\* fails and writes nothing
C31_NoSnapshotNoWrite ==
    last.op = "saveWrite" => last.arg[1] \notin { Undefined, Null }

\* C34: once the session is open (the editor has run its effects) no step changes
\* originalUri: no transform, stroke, undo, clear, reset, tool switch or save; and
\* every state a save writes carries it
C34_OriginalUriFixed ==
    [][/\ phase = "ready" => originalUri' = originalUri
       /\ last'.op = "saveWrite" =>
             store'[last'.sid].state_json.value.originalUri = originalUri]_vars

\* a save has written a transformed image and the photo it was made from
C34_Witness ==
    /\ last.op = "saveWrite"
    /\ originalUri = PhotoUri
    /\ store[last.sid].state_json.value.originalUri = PhotoUri
    /\ store[last.sid].state_json.value.currentUri = ManipulatedUri(1)

\* C40: while the editor is open on a loaded state whose strokes all decode, with no
\* edit made, the stored state has the originalUri, currentUri, noteText and strokes
\* that were loaded, whatever saves in place have been written, also after the
\* session was opened again; and no save in place starts a transform
C40_LoadSaveKeepsState ==
    /\ (/\ phase = "ready"
        /\ initialState # << >>
        /\ sessionId \in DOMAIN store
        /\ \A k \in DOMAIN initialState[1].strokes :
              SvgParses(initialState[1].strokes[k].pathSvg)) =>
          LET stored == store[sessionId].state_json.value
              loaded == initialState[1]
          IN  /\ stored.originalUri = loaded.originalUri
              /\ stored.currentUri = loaded.currentUri
              /\ stored.noteText = loaded.noteText
              /\ stored.strokes = loaded.strokes
    /\ \A s \in saves : s.kind = "update" => s.tid = 0
    /\ (last.op = "saveWrite" /\ sessionId # 0) => ~last.issued

\* the second save in place of a loaded session, with two strokes, a note and a
\* transformed image, has been written
C40_Witness ==
    /\ last.op = "saveWrite"
    /\ last.sid = sessionId
    /\ nextSid = MaxSaveRequests
    /\ initialState # << >>
    /\ Len(initialState[1].strokes) = 2
    /\ initialState[1].strokes[1] # initialState[1].strokes[2]
    /\ \A k \in DOMAIN initialState[1].strokes :
          SvgParses(initialState[1].strokes[k].pathSvg)
    /\ initialState[1].currentUri # initialState[1].originalUri
    /\ initialState[1].noteText # ""
    /\ store[sessionId].state_json.value.strokes = initialState[1].strokes

\* C32: at most one save of an editing session is in flight at a time
C32_OneSaveInFlight == Cardinality(saves) <= 1

(***************************************************************************)
(* The store: what an update and a null preview leave behind.              *)
(***************************************************************************)
\* C38: after a create, update or delete whose file deletion did not fail, every
\* preview file a record referred to before it is still referred to or no longer
\* exists, also after an update with a null preview
C38_NoPreviewLeaked ==
    LET \* the preview files the records of a store refer to
        Referenced(st) == { st[i].preview_uri : i \in DOMAIN st } \ { Null }
        \* the preview file the operation tries to delete, Null for none
        target ==
            IF last.op = "delete" THEN last.arg.attempted
            ELSE IF /\ last.op = "update"
                    /\ last.sid \in DOMAIN last.seen.store
                    /\ last.arg.previewUri \notin { Undefined, Null }
                    /\ last.seen.store[last.sid].preview_uri # last.arg.previewUri
            THEN last.seen.store[last.sid].preview_uri
            ELSE Null
    IN  (/\ last.op \in { "create", "update", "delete" }
         /\ target \in last.seen.files => target \notin files) =>
            \A f \in Referenced(last.seen.store) \cap last.seen.files :
                f \in Referenced(store) \/ f \notin files

\* C33: updateSession changes neither the id, the name nor created_at of its record,
\* and no field of any other record, whatever the shape of previewUri; it adds and
\* removes no record
C33_UpdateFrame ==
    last.op = "update" =>
        /\ DOMAIN store = DOMAIN last.seen.store
        /\ \A i \in DOMAIN store :
              IF i = last.sid
              THEN /\ store[i].id = last.seen.store[i].id
                   /\ store[i].name = last.seen.store[i].name
                   /\ store[i].created_at = last.seen.store[i].created_at
              ELSE store[i] = last.seen.store[i]

\* a record created earlier than the update has got a new state and a new preview,
\* next to a second record
C33_Witness ==
    /\ last.op = "update"
    /\ last.sid \in DOMAIN last.seen.store
    /\ Cardinality(DOMAIN store) = 2
    /\ last.seen.store[last.sid].created_at < last.seen.clock
    /\ last.arg.previewUri = PreviewFile(2)
    /\ last.seen.store[last.sid].preview_uri = PreviewFile(1)
    /\ store[last.sid].state_json # last.seen.store[last.sid].state_json

(***************************************************************************)
(* The rotation the pipeline applies.                                      *)
(***************************************************************************)
\* C35: for every integer angle, negative or of a full turn and more, the angle
\* used is the one value of 0..359 that differs from it by a multiple of 360, and
\* the operation list has a rotate, by that value, exactly when it is not 0
C35_RotationNormalised ==
    /\ \A a \in (0 - 90 * MaxQuarterTurns)..(90 * MaxQuarterTurns) :
          /\ NormalizeAngle(a) \in 0..(FullTurn - 1)
          /\ (a - NormalizeAngle(a)) % FullTurn = 0
    /\ handed # << >> =>
          LET angle == MathRound(gesture.angle)
              rotates == SelectSeq(handed, LAMBDA o : o.op = "rotate")
          IN  IF angle % FullTurn = 0
              THEN rotates = << >>
              ELSE rotates = << [op |-> "rotate", arg |-> << angle % FullTurn >>] >>

\* five quarter turns back have been handed over as a rotation by 270
C35_Witness ==
    /\ handed # << >>
    /\ MathRound(gesture.angle) = 0 - 450
    /\ \E k \in DOMAIN handed : handed[k] = [op |-> "rotate", arg |-> << 270 >>]

(***************************************************************************)
(* The database handle.                                                    *)
(***************************************************************************)
\* C36: a store operation issued while the storage is available succeeds, whatever
\* failed before it: a failure to open or initialise the database is not kept
C36_StoreErrorsRecoverable ==
    (last.op = "db" /\ last.arg.available) => last.arg.ok

(***************************************************************************)
(* The applyingCrop flag.                                                  *)
(***************************************************************************)
\* C37: applyingCrop is true in exactly the states in which a transform is in flight
C37_ApplyingCropIffInFlight == applyingCrop <=> (inflight # {})

(***************************************************************************)
(* Pointer input and the tool mode.                                        *)
(***************************************************************************)
\* C39: in the crop and the note tool no drag is under way and no gesture event can
\* begin, extend or commit a stroke; in every other tool mode the editor's user can
\* begin one (up to the strokes the model draws); and every stroke event there has
\* been came in a mode other than crop and note
C39_PointerInputByMode ==
    /\ IF activeTool \in { "grid", "note" }
       THEN /\ ~panActive
            /\ ~ENABLED (\/ \E p \in Points : PanStart(p)
                         \/ \E p \in DragPoints : PanMove(p)
                         \/ PanEnd)
       ELSE (UserAtEditor /\ ~panActive /\ Len(strokes) < StrokeCap) =>
                ENABLED (\E p \in Points : PanStart(p))
    /\ last.op \in { "startStroke", "appendPoint", "endStroke" } =>
          last.seen.activeTool \notin { "grid", "note" }

\* a drag begun with no tool selected has been cut off by the note tool: its path is
\* still there and no event reaches it
C39_Witness ==
    /\ last.op = "select"
    /\ last.seen.activeTool = "none"
    /\ activeTool = "note"
    /\ activePath # << >>
    /\ activePath = last.seen.activePath

====
